---- MODULE Spec2Model ----
(***************************************************************************)
(* Resume ingestion and scoring pipeline of core/utils.py:                 *)
(*   extract_text_from_resume / _read_file_text   (text extractor)         *)
(*   _normalize_items, extract_experience          (entity extractor)      *)
(*   calculate_match_score                         (match scorer)          *)
(*                                                                         *)
(* A Python str is a sequence of one-character strings.  A Python value is *)
(* a record [t, s, items]: t is the type tag, s the characters of a str    *)
(* (or the decimal digits of an int), items the elements of a list (or the *)
(* name attribute of an object, as a one-element sequence).                *)
(* A call outcome is [raised, val]: raised names the exception that left   *)
(* the function ("" for a normal return), val the returned value.          *)
(* A match score is kept in hundredths: 67 stands for 0.67.                *)
(*                                                                         *)
(* pdfplumber, docx and nlp are the module globals, TRUE when the library  *)
(* or the model is there; loads counts the calls of spacy.load.  pc, fn,   *)
(* args and ret describe the call or calls under way; frame holds the      *)
(* local variables of the calls and stream the positions of their streams  *)
(* where several calls run side by side, and both are empty where a        *)
(* single call is taken as one step.                                       *)
(*                                                                         *)
(* The upload views of core/views.py, resume_create and resume_update, are *)
(* modelled as requests that run side by side: disk holds the temporary    *)
(* files that exist and skills the rows of the Skill table.                *)
(***************************************************************************)
EXTENDS Integers, Sequences, FiniteSets, TLC

VARIABLES pdfplumber, docx, nlp, loads, pc, fn, args, ret, frame, stream, disk, skills

vars == <<pdfplumber, docx, nlp, loads, pc, fn, args, ret, frame, stream, disk, skills>>

(***************************************************************************)
(* Bounds of the model.                                                    *)
(***************************************************************************)
MaxResumeItems == 2
MaxJobItems == 3
MaxParts == 2
MaxTextLen == 4
MaxLimit == 2

(***************************************************************************)
(* Python values.                                                          *)
(***************************************************************************)
PyNone == [t |-> "None", s |-> <<>>, items |-> <<>>]
PyStr(chars) == [t |-> "str", s |-> chars, items |-> <<>>]
PyInt(digits) == [t |-> "int", s |-> digits, items |-> <<>>]
PyObj(name) == [t |-> "obj", s |-> <<>>, items |-> <<name>>]
PyList(elems) == [t |-> "list", s |-> <<>>, items |-> elems]

Ok(v) == [raised |-> "", val |-> v]
Raise(exc) == [raised |-> exc, val |-> <<>>]
NoRet == [raised |-> "", val |-> <<>>]

(* All sequences over S of length 0..n. *)
SeqUpTo(S, n) == UNION {[1..k -> S] : k \in 0..n}

(* Those that hold no element twice. *)
DistinctSeqUpTo(S, n) ==
    {q \in SeqUpTo(S, n) : \A a, b \in DOMAIN q : q[a] = q[b] => a = b}

(***************************************************************************)
(* str methods.  The alphabet has the ASCII pairs i/I, and the dotless     *)
(* small i (U+0131), written "dotless_i": Python upper-cases it to "I" and *)
(* lower-cases it to itself, while "I" lower-cases to "i".  In file names  *)
(* and texts an element of the sequence is a whole word ("pdf", "PDF").    *)
(***************************************************************************)
LowerChar(c) == CASE c = "I" -> "i"
                  [] c = "N" -> "n"
                  [] c = "PDF" -> "pdf"
                  [] c = "Docx" -> "docx"
                  [] c = "Experience" -> "experience"
                  [] c \in {"Python", "PYTHON"} -> "python"
                  [] c = "AWS" -> "aws"
                  [] c = "Java" -> "java"
                  [] c = "Script" -> "script"
                  [] c = "University" -> "university"
                  [] c = "Degree" -> "degree"
                  [] c \in {"Flask", "FLASK"} -> "flask"
                  [] OTHER -> c

UpperChar(c) == CASE c = "i" -> "I"
                  [] c = "dotless_i" -> "I"
                  [] c = "n" -> "N"
                  [] c = "o" -> "O"
                  [] c = "e" -> "E"
                  [] OTHER -> c

Lower(chars) == [k \in DOMAIN chars |-> LowerChar(chars[k])]
Upper(chars) == [k \in DOMAIN chars |-> UpperChar(chars[k])]

IsSpace(c) == c \in {" ", "\n"}

RECURSIVE LStrip(_)
LStrip(chars) ==
    IF chars # <<>> /\ IsSpace(Head(chars)) THEN LStrip(Tail(chars)) ELSE chars

RECURSIVE RStrip(_)
RStrip(chars) ==
    IF chars # <<>> /\ IsSpace(chars[Len(chars)])
    THEN RStrip(SubSeq(chars, 1, Len(chars) - 1))
    ELSE chars

Strip(chars) == RStrip(LStrip(chars))

(* str(x) of a Python value. *)
Str(x) == CASE x.t = "str" -> x.s
            [] x.t = "int" -> x.s
            [] x.t = "None" -> <<"N", "o", "n", "e">>
            [] OTHER -> <<"<", x.t, ">">>

(* re.split on single-character delimiters: the pieces between them. *)
RECURSIVE ReSplitOn(_, _, _)
ReSplitOn(chars, piece, delims) ==
    IF chars = <<>> THEN <<piece>>
    ELSE IF Head(chars) \in delims
         THEN <<piece>> \o ReSplitOn(Tail(chars), <<>>, delims)
         ELSE ReSplitOn(Tail(chars), Append(piece, Head(chars)), delims)

(* re.split(r",|;", x) *)
ReSplit(chars) == ReSplitOn(chars, <<>>, {",", ";"})

SelectNonBlank(pieces) == SelectSeq(pieces, LAMBDA p : Strip(p) # <<>>)

(***************************************************************************)
(* _normalize_items: unique, stripped, non-empty strings in first-seen     *)
(* order; uniqueness is decided on the lower-cased string.                 *)
(***************************************************************************)
(* Variant: a blank item ends the loop (break for continue). *)
RECURSIVE NormalizeLoopBreak(_, _, _)
NormalizeLoopBreak(items, seen, out) ==
    IF items = <<>> THEN out
    ELSE LET it == Head(items)
             s == Strip(Str(it))
             key == Lower(s)
         IN IF it.t = "None" \/ s = <<>> THEN out
            ELSE IF key \notin seen
                 THEN NormalizeLoopBreak(Tail(items), seen \cup {key}, Append(out, s))
                 ELSE NormalizeLoopBreak(Tail(items), seen, out)

(* Variant: uniqueness is decided on the string as written. *)
RECURSIVE NormalizeLoopCaseSensitive(_, _, _)
NormalizeLoopCaseSensitive(items, seen, out) ==
    IF items = <<>> THEN out
    ELSE LET it == Head(items)
             s == Strip(Str(it))
         IN IF it.t = "None" \/ s = <<>>
            THEN NormalizeLoopCaseSensitive(Tail(items), seen, out)
            ELSE IF s \notin seen
                 THEN NormalizeLoopCaseSensitive(Tail(items), seen \cup {s}, Append(out, s))
                 ELSE NormalizeLoopCaseSensitive(Tail(items), seen, out)

RECURSIVE NormalizeLoop(_, _, _)
NormalizeLoop(items, seen, out) ==
    IF items = <<>> THEN out
    ELSE LET it == Head(items)
             s == Strip(Str(it))
             key == Lower(s)
         IN IF it.t = "None" THEN NormalizeLoop(Tail(items), seen, out)
            ELSE IF s = <<>> THEN NormalizeLoop(Tail(items), seen, out)
            ELSE IF key \notin seen
                 THEN NormalizeLoop(Tail(items), seen \cup {key}, Append(out, s))
                 ELSE NormalizeLoop(Tail(items), seen, out)

NormalizeItems(items) ==
    IF items = <<>> THEN <<>> ELSE NormalizeLoop(items, {}, <<>>)

(***************************************************************************)
(* calculate_match_score.to_names: None gives [], a str is split on        *)
(* "," and ";", an iterable gives str(it.name) or str(it) of each item,    *)
(* and a value that cannot be iterated (TypeError) gives [].               *)
(***************************************************************************)
HasName(it) == it.t = "obj"

ItemName(it) == IF HasName(it) THEN PyStr(Str(it.items[1])) ELSE PyStr(Str(it))

(* Variant: the string is split on "," only. *)
ToNamesStrCommaOnly(x) ==
    LET parts == SelectNonBlank(ReSplitOn(x.s, <<>>, {","}))
    IN [k \in DOMAIN parts |-> PyStr(Strip(parts[k]))]

ToNamesStr(x) ==
    LET parts == SelectNonBlank(ReSplit(x.s))
    IN [k \in DOMAIN parts |-> PyStr(Strip(parts[k]))]

(* Variant: an item that is neither a str nor named is a TypeError, so [] results. *)
ToNamesIterStrict(x) ==
    IF \E k \in DOMAIN x.items : x.items[k].t \notin {"str", "obj"}
    THEN <<>>
    ELSE [k \in DOMAIN x.items |-> ItemName(x.items[k])]

ToNamesIter(x) == [k \in DOMAIN x.items |-> ItemName(x.items[k])]

ToNames(x) ==
    CASE x.t = "None" -> <<>>
      [] x.t = "str" -> ToNamesStr(x)
      [] x.t = "list" -> ToNamesIter(x)
      [] OTHER -> <<>>

(***************************************************************************)
(* round(k / n, 2) in hundredths, ties to the even hundredth (a tie needs  *)
(* 200 * k / n to be an odd integer, and then k / n is a binary fraction,  *)
(* which the float holds exactly).  n = 0 is Python's ZeroDivisionError.   *)
(***************************************************************************)
(* Variant: the quotient is truncated to 2 decimals. *)
Truncate2(k, n) == (100 * k) \div n

Round2(k, n) ==
    LET q == (100 * k) \div n
        r == (100 * k) % n
    IN IF 2 * r < n THEN q
       ELSE IF 2 * r > n THEN q + 1
       ELSE IF q % 2 = 0 THEN q ELSE q + 1

Divide2(k, n) == IF n = 0 THEN Raise("ZeroDivisionError") ELSE Ok(Round2(k, n))

(* Variant: the sets are built without lower-casing. *)
CaseSensitiveSet(names) == {names[k] : k \in DOMAIN names}

LowerSet(names) == {Lower(names[k]) : k \in DOMAIN names}

(* Variant: the empty-requirements guard is missing. *)
ScoreOfUnguarded(resume_list, job_list) ==
    Divide2(Cardinality(LowerSet(resume_list) \cap LowerSet(job_list)),
            Cardinality(LowerSet(job_list)))

(* Variant: the resume skills are counted instead of the overlap. *)
ScoreOfSkillRatio(resume_list, job_list) ==
    IF job_list = <<>> THEN Ok(0)
    ELSE Divide2(Cardinality(LowerSet(resume_list)), Cardinality(LowerSet(job_list)))

(* Variant: the overlap is divided by the skills of both sides together. *)
ScoreOfJaccard(resume_list, job_list) ==
    IF job_list = <<>> THEN Ok(0)
    ELSE Divide2(Cardinality(LowerSet(resume_list) \cap LowerSet(job_list)),
                 Cardinality(LowerSet(resume_list) \cup LowerSet(job_list)))

ScoreOf(resume_list, job_list) ==
    IF job_list = <<>> THEN Ok(0)
    ELSE LET resume_set == LowerSet(resume_list)
             job_set == LowerSet(job_list)
             overlap == resume_set \cap job_set
         IN Divide2(Cardinality(overlap), Cardinality(job_set))

CalculateMatchScore(resume_skills, job_requirements) ==
    ScoreOf(NormalizeItems(ToNames(resume_skills)),
            NormalizeItems(ToNames(job_requirements)))

(***************************************************************************)
(* Inputs of the scorer.  A base list of distinct values (two names that   *)
(* differ in case and padding only, a third name, a blank, an int) is      *)
(* given in each shape the scorer accepts: the list itself, a list of      *)
(* objects whose name attribute is the value, and one string that lists    *)
(* str(value) separated by "," and ";" alternately.  None, an int as the   *)
(* whole argument and delimiter-only strings complete the set.             *)
(***************************************************************************)
ValuePool == {PyStr(<<"I">>), PyStr(<<" ", "i", " ">>), PyStr(<<"dotless_i">>),
              PyStr(<<" ">>), PyInt(<<"7">>)}

RECURSIVE Joined(_, _)
Joined(values, k) ==
    IF k > Len(values) THEN <<>>
    ELSE (IF k = 1 THEN <<>> ELSE IF k % 2 = 0 THEN <<",">> ELSE <<";">>)
         \o Str(values[k]) \o Joined(values, k + 1)

AsObjects(values) == PyList([k \in DOMAIN values |-> PyObj(values[k])])
AsDelimited(values) == PyStr(Joined(values, 1))

(* Strings that hold delimiters and blanks only. *)
DelimiterOnly == {PyStr(<<",">>), PyStr(<<";", " ", ",">>)}

ScorerInputs(n) ==
    {PyNone, PyInt(<<"5">>)}
    \cup DelimiterOnly
    \cup {PyList(v) : v \in DistinctSeqUpTo(ValuePool, n)}
    \cup {AsObjects(v) : v \in DistinctSeqUpTo(ValuePool, n)}
    \cup {AsDelimited(v) : v \in DistinctSeqUpTo(ValuePool, n)}

(***************************************************************************)
(* The scorer as a state machine: Init draws the two arguments, the action *)
(* applies calculate_match_score.  The scorer reads no capability flag.    *)
(***************************************************************************)
InitScore ==
    /\ pdfplumber = FALSE /\ docx = FALSE /\ nlp = FALSE
    /\ pc = "ready"
    /\ fn = "calculate_match_score"
    /\ \E r \in ScorerInputs(MaxResumeItems), j \in ScorerInputs(MaxJobItems) :
           args = [resume_skills |-> r, job_requirements |-> j]
    /\ ret = NoRet
    /\ loads = (IF nlp THEN 1 ELSE 0) /\ frame = <<>> /\ stream = <<>>
    /\ disk = {} /\ skills = {}

CallCalculateMatchScore ==
    /\ pc = "ready"
    /\ fn = "calculate_match_score"
    /\ ret' = CalculateMatchScore(args.resume_skills, args.job_requirements)
    /\ pc' = "done"
    /\ UNCHANGED <<pdfplumber, docx, nlp, loads, fn, args, frame, stream, disk, skills>>

NextScore == CallCalculateMatchScore

SpecScore == InitScore /\ [][NextScore]_vars

ScoreDone == pc = "done" /\ fn = "calculate_match_score"

(***************************************************************************)
(* Vocabulary of the scorer's claims, stated on the inputs and not through *)
(* the scorer's own operators.                                             *)
(***************************************************************************)
Range(f) == {f[k] : k \in DOMAIN f}

Abs(n) == IF n < 0 THEN -n ELSE n

IsBlank(chars) == \A k \in DOMAIN chars : IsSpace(chars[k])

(* The characters of the skill an item of a collection stands for. *)
SkillChars(it) == IF it.t = "obj" THEN Str(it.items[1]) ELSE Str(it)

(* The skills an argument lists, trimmed, blanks dropped, compared in lower case. *)
SkillKeys(x) ==
    CASE x.t = "list" -> {Lower(Strip(SkillChars(x.items[k]))) : k \in DOMAIN x.items} \ {<<>>}
      [] x.t = "str" -> {Lower(Strip(p)) : p \in Range(ReSplit(x.s))} \ {<<>>}
      [] OTHER -> {}

(* None, an empty sequence, an empty or delimiter-only string, only blank items. *)
EmptyRequirements(x) ==
    \/ x.t = "None"
    \/ x.t = "list" /\ \A k \in DOMAIN x.items : IsBlank(SkillChars(x.items[k]))
    \/ x.t = "str" /\ \A k \in DOMAIN x.s : IsSpace(x.s[k]) \/ x.s[k] \in {",", ";"}

Returned(v) == ret.raised = "" /\ ret.val = v

(* C2: whenever the job requirements normalize to the empty set (None, an
   empty sequence, an empty or delimiter-only string, only blank items),
   calculate_match_score returns exactly 0.0, whatever resume_skills is, and
   no ZeroDivisionError leaves it. *)
C2_EmptyRequirementsScoreZero ==
    (ScoreDone /\ EmptyRequirements(args.job_requirements)) => Returned(0)

C2_Witness ==
    /\ ScoreDone
    /\ args.job_requirements.t = "str"
    /\ \E k \in DOMAIN args.job_requirements.s : args.job_requirements.s[k] = ","
    /\ EmptyRequirements(args.job_requirements)
    /\ SkillKeys(args.resume_skills) # {}
    /\ Returned(0)

(* C3: for a non-empty normalized job set the score is
   |resume_set \cap job_set| / |job_set| rounded to 2 decimals (within half a
   hundredth of the quotient), the sets being compared in lower case and
   duplicates, case variants included, counting once. *)
C3_ScoreIsRoundedOverlapRatio ==
    (ScoreDone /\ SkillKeys(args.job_requirements) # {}) =>
        LET R == SkillKeys(args.resume_skills)
            J == SkillKeys(args.job_requirements)
            k == Cardinality(R \cap J)
            n == Cardinality(J)
        IN /\ ret.raised = ""
           /\ 2 * Abs(100 * k - ret.val * n) <= n
           /\ (k = n => ret.val = 100)
           /\ (k = 0 => ret.val = 0)

(* 2 of 3 requirements met, by a resume that lists one of them in another case: 0.67. *)
C3_Witness ==
    /\ ScoreDone
    /\ Cardinality(SkillKeys(args.job_requirements)) = 3
    /\ Cardinality(SkillKeys(args.resume_skills) \cap SkillKeys(args.job_requirements)) = 2
    /\ args.resume_skills.t = "list" /\ args.job_requirements.t = "list"
    /\ PyStr(<<" ", "i", " ">>) \in Range(args.resume_skills.items)
    /\ PyStr(<<"I">>) \in Range(args.job_requirements.items)
    /\ Returned(67)

(* C4: the value calculate_match_score returns lies in [0.0, 1.0]. *)
C4_ScoreInUnitInterval ==
    ScoreDone => (ret.raised = "" /\ 0 <= ret.val /\ ret.val <= 100)

(* The bound 1.0 is met by a resume that lists more skills than the job requires. *)
C4_Witness ==
    /\ ScoreDone
    /\ Cardinality(SkillKeys(args.resume_skills)) > Cardinality(SkillKeys(args.job_requirements))
    /\ Returned(100)

(***************************************************************************)
(* Case variants, permutations and shapes of an argument.                  *)
(***************************************************************************)
SameOutcome(a, b) == a.raised = b.raised /\ (a.raised = "" => a.val = b.val)

UpperItem(it) ==
    CASE it.t = "str" -> PyStr(Upper(it.s))
      [] it.t = "obj" /\ it.items[1].t = "str" -> PyObj(PyStr(Upper(it.items[1].s)))
      [] OTHER -> it

LowerItem(it) ==
    CASE it.t = "str" -> PyStr(Lower(it.s))
      [] it.t = "obj" /\ it.items[1].t = "str" -> PyObj(PyStr(Lower(it.items[1].s)))
      [] OTHER -> it

(* x with one skill string (or, for a delimited string, the string) upper-cased. *)
UpperVariants(x) ==
    CASE x.t = "list" -> {PyList([x.items EXCEPT ![k] = UpperItem(x.items[k])]) : k \in DOMAIN x.items}
      [] x.t = "str" -> {PyStr(Upper(x.s))}
      [] OTHER -> {}

LowerVariants(x) ==
    CASE x.t = "list" -> {PyList([x.items EXCEPT ![k] = LowerItem(x.items[k])]) : k \in DOMAIN x.items}
      [] x.t = "str" -> {PyStr(Lower(x.s))}
      [] OTHER -> {}

(* Upper-casing and then lower-casing gives what lower-casing gives (every
   ASCII string; not the dotless i). *)
RoundTrips(chars) == Lower(Upper(chars)) = Lower(chars)

RoundTripUpperVariants(x) ==
    CASE x.t = "list" ->
            {PyList([x.items EXCEPT ![k] = UpperItem(x.items[k])]) :
                 k \in {m \in DOMAIN x.items : RoundTrips(SkillChars(x.items[m]))}}
      [] x.t = "str" -> IF RoundTrips(x.s) THEN {PyStr(Upper(x.s))} ELSE {}
      [] OTHER -> {}

ScoreWithResume(v) == CalculateMatchScore(v, args.job_requirements)
ScoreWithJob(v) == CalculateMatchScore(args.resume_skills, v)

(* C5 as stated: replacing any skill string of either argument by its
   upper-cased or lower-cased variant never changes the score. *)
C5_AnyCaseChangeKeepsScore ==
    ScoreDone =>
        /\ \A v \in UpperVariants(args.resume_skills) \cup LowerVariants(args.resume_skills) :
               SameOutcome(ScoreWithResume(v), ret)
        /\ \A v \in UpperVariants(args.job_requirements) \cup LowerVariants(args.job_requirements) :
               SameOutcome(ScoreWithJob(v), ret)

(* C5, amended: lower-casing any skill string of either argument never
   changes the score, and neither does upper-casing a skill string s with
   s.upper().lower() = s.lower(). *)
C5_RoundTripCaseChangeKeepsScore ==
    ScoreDone =>
        /\ \A v \in RoundTripUpperVariants(args.resume_skills) \cup LowerVariants(args.resume_skills) :
               SameOutcome(ScoreWithResume(v), ret)
        /\ \A v \in RoundTripUpperVariants(args.job_requirements) \cup LowerVariants(args.job_requirements) :
               SameOutcome(ScoreWithJob(v), ret)

(* A met requirement stays met when the resume's " i " becomes " I ". *)
C5_Witness ==
    /\ ScoreDone
    /\ args.resume_skills = PyList(<<PyStr(<<" ", "i", " ">>), PyInt(<<"7">>)>>)
    /\ PyList(<<PyStr(<<" ", "I", " ">>), PyInt(<<"7">>)>>) \in RoundTripUpperVariants(args.resume_skills)
    /\ SkillKeys(args.job_requirements) = {<<"i">>, <<"dotless_i">>}
    /\ Returned(50)

(* The items (for a string, the pieces) of x in the order p. *)
JoinComma(pieces) ==
    LET RECURSIVE J(_)
        J(k) == IF k > Len(pieces) THEN <<>>
                ELSE (IF k = 1 THEN <<>> ELSE <<",">>) \o pieces[k] \o J(k + 1)
    IN J(1)

Permuted(x, p) ==
    CASE x.t = "list" -> PyList([k \in DOMAIN x.items |-> x.items[p[k]]])
      [] x.t = "str" -> LET pieces == ReSplit(x.s)
                        IN PyStr(JoinComma([k \in DOMAIN pieces |-> pieces[p[k]]]))
      [] OTHER -> x

ItemCount(x) ==
    CASE x.t = "list" -> Len(x.items)
      [] x.t = "str" -> Len(ReSplit(x.s))
      [] OTHER -> 0

(* C6: the score does not depend on the order of the items of resume_skills
   nor on the order of the items of job_requirements (the permuted arguments
   are arguments again, so permuting both follows). *)
C6_OrderIndependent ==
    ScoreDone =>
        /\ \A p \in Permutations(1..ItemCount(args.resume_skills)) :
               SameOutcome(ScoreWithResume(Permuted(args.resume_skills, p)), ret)
        /\ \A p \in Permutations(1..ItemCount(args.job_requirements)) :
               SameOutcome(ScoreWithJob(Permuted(args.job_requirements, p)), ret)

(* A job list with a blank and a case-variant duplicate before the met requirement. *)
C6_Witness ==
    /\ ScoreDone
    /\ args.job_requirements = PyList(<<PyStr(<<" ">>), PyStr(<<"I">>), PyStr(<<" ", "i", " ">>)>>)
    /\ args.resume_skills = PyList(<<PyInt(<<"7">>), PyStr(<<"I">>)>>)
    /\ Returned(100)

(* C7: a sequence of plain strings, the sequence of objects named by them
   and the one string that lists them separated by "," and ";" normalize to
   the same skill list and give the same score, on either argument. *)
PlainStrings(x) == x.t = "list" /\ \A k \in DOMAIN x.items : x.items[k].t = "str"

Normalized(x) == NormalizeItems(ToNames(x))

C7_ShapesInterchangeable ==
    ScoreDone =>
        /\ PlainStrings(args.resume_skills) =>
               \A v \in {AsObjects(args.resume_skills.items), AsDelimited(args.resume_skills.items)} :
                   /\ Normalized(v) = Normalized(args.resume_skills)
                   /\ SameOutcome(ScoreWithResume(v), ret)
        /\ PlainStrings(args.job_requirements) =>
               \A v \in {AsObjects(args.job_requirements.items), AsDelimited(args.job_requirements.items)} :
                   /\ Normalized(v) = Normalized(args.job_requirements)
                   /\ SameOutcome(ScoreWithJob(v), ret)

(* Three requirements, listed with both delimiters in the string shape. *)
C7_Witness ==
    /\ ScoreDone
    /\ PlainStrings(args.job_requirements)
    /\ Len(args.job_requirements.items) = 3
    /\ Cardinality(SkillKeys(args.job_requirements)) = 2
    /\ \E k \in DOMAIN AsDelimited(args.job_requirements.items).s :
           AsDelimited(args.job_requirements.items).s[k] = ";"
    /\ PlainStrings(args.resume_skills)
    /\ Returned(50)

(* C8: no input is rejected.  An item of a collection that is neither a str
   nor named (the int 7) is kept as the skill str(item); an argument that
   cannot be iterated (the int 5) and None normalize to the empty list; a
   collection holding such an item does not; no exception leaves the scorer. *)
Unnamed(it) == it.t \notin {"str", "obj"}

C8_OddItemsCoerced ==
    ScoreDone =>
        /\ ret.raised = ""
        /\ \A x \in {args.resume_skills, args.job_requirements} :
               /\ x.t \in {"None", "int"} => Normalized(x) = <<>>
               /\ x.t = "list" =>
                      \A k \in DOMAIN x.items :
                          Unnamed(x.items[k]) => Str(x.items[k]) \in Range(Normalized(x))

(* The int 7 of a mixed resume list meets the requirement "7". *)
C8_Witness ==
    /\ ScoreDone
    /\ args.resume_skills = PyList(<<PyStr(<<"dotless_i">>), PyInt(<<"7">>)>>)
    /\ args.job_requirements = PyStr(<<"7">>)
    /\ Returned(100)

(* The résumé argument with one more skill: appended to a list as a string
   or as an object that carries it, appended to a delimited string after a
   comma, alone in a list when there was no résumé argument. *)
WithSkill(x, skill) ==
    CASE x.t = "list" -> {PyList(Append(x.items, skill)), PyList(Append(x.items, PyObj(skill)))}
      [] x.t = "str" -> {PyStr(x.s \o <<",">> \o Str(skill))}
      [] x.t = "None" -> {PyList(<<skill>>)}
      [] OTHER -> {}

(* C28: for fixed job requirements, a skill added to the résumé side never
   lowers the score, and a skill that is not among the requirements,
   compared trimmed and in lower case, leaves the score as it was. *)
C28_MonotoneInResume ==
    ScoreDone =>
        LET required == SkillKeys(args.job_requirements)
        IN \A skill \in ValuePool :
               \A v \in WithSkill(args.resume_skills, skill) :
                   LET more == ScoreWithResume(v)
                   IN /\ ret.raised = "" /\ more.raised = ""
                      /\ more.val >= ret.val
                      /\ Lower(Strip(Str(skill))) \notin required => more.val = ret.val

(* One of two requirements is met; the skill "I" would meet the other, a
   blank or "7" would not. *)
C28_Witness ==
    /\ ScoreDone
    /\ args.job_requirements = PyList(<<PyStr(<<"I">>), PyStr(<<"dotless_i">>)>>)
    /\ args.resume_skills = PyList(<<PyStr(<<"dotless_i">>)>>)
    /\ Returned(50)
    /\ \A v \in WithSkill(args.resume_skills, PyStr(<<" ", "i", " ">>)) :
           ScoreWithResume(v) = Ok(100)
    /\ \A v \in WithSkill(args.resume_skills, PyInt(<<"7">>)) : ScoreWithResume(v) = Ok(50)

(***************************************************************************)
(*                          TEXT EXTRACTOR                                 *)
(*                                                                         *)
(* A document is [fmt, ok, parts]: fmt is what its bytes are ("pdf" starts *)
(* with %PDF, "docx" is a PK archive, "text" is anything else), ok says    *)
(* whether the format's library can parse it, parts are the texts of its   *)
(* pages (pdf), paragraphs (docx) or lines (text); an empty part is a page *)
(* that yields no text.  A source is [kind, name, exists, doc, mode,       *)
(* broken, pos]: a path (name is the path string, exists says whether the  *)
(* file is there), a stream (name is its name attribute, PyNone when it    *)
(* has none; mode is what read() returns; broken streams raise on seek or  *)
(* read; pos is the position the caller left it at) or None.               *)
(* An outcome of the extractor carries the warnings emitted, in order.     *)
(***************************************************************************)
TextOk(v, w) == [raised |-> "", val |-> v, warned |-> w]
TextRaise(exc, w) == [raised |-> exc, val |-> <<>>, warned |-> w]

WarnNoPdf == "pdfplumber not installed; cannot extract text from PDF."
WarnNoDocx == "python-docx not installed; cannot extract text from DOCX."
WarnError == "Error extracting text from resume"

EmptyDoc == [fmt |-> "text", ok |-> TRUE, parts |-> <<>>]

(* name.split(".")[-1].lower() *)
LastSuffix(name) ==
    LET pieces == ReSplitOn(name, <<>>, {"."}) IN Lower(pieces[Len(pieces)])

EndsWith(chars, suffix) ==
    /\ Len(chars) >= Len(suffix)
    /\ SubSeq(chars, Len(chars) - Len(suffix) + 1, Len(chars)) = suffix

(* Variant: a page that yields no text still leaves its line break. *)
RECURSIVE JoinPagesKeepEmpty(_)
JoinPagesKeepEmpty(parts) ==
    IF parts = <<>> THEN <<>>
    ELSE Head(parts) \o <<"\n">> \o JoinPagesKeepEmpty(Tail(parts))

(* text += page_text + "\n" for every page that yields text *)
RECURSIVE JoinPages(_)
JoinPages(parts) ==
    IF parts = <<>> THEN <<>>
    ELSE (IF Head(parts) # <<>> THEN Head(parts) \o <<"\n">> ELSE <<>>)
         \o JoinPages(Tail(parts))

(* "\n".join(parts) *)
RECURSIVE JoinNewline(_)
JoinNewline(parts) ==
    IF parts = <<>> THEN <<>>
    ELSE IF Len(parts) = 1 THEN Head(parts)
    ELSE Head(parts) \o <<"\n">> \o JoinNewline(Tail(parts))

(* The bytes of a document decoded as UTF-8, undecodable bytes dropped. *)
Decoded(doc) ==
    CASE doc.fmt = "pdf" -> <<"%PDF", "junk">>
      [] doc.fmt = "docx" -> <<"PK", "junk">>
      [] OTHER -> JoinNewline(doc.parts)

(* pdfplumber.open(...) and the page loop; a file that is missing or is no
   well-formed PDF makes the library raise. *)
PdfText(exists, doc, w) ==
    IF exists /\ doc.fmt = "pdf" /\ doc.ok
    THEN TextOk(JoinPages(doc.parts), w)
    ELSE TextRaise("PdfError", w)

(* docx.Document(...) and the paragraph join *)
DocxText(exists, doc, w) ==
    IF exists /\ doc.fmt = "docx" /\ doc.ok
    THEN TextOk(JoinNewline(doc.parts), w)
    ELSE TextRaise("DocxError", w)

(* The extension detection at the top of _read_file_text. *)
DetectExt(source, ext) ==
    IF ext # PyNone THEN ext
    ELSE IF source.kind = "stream" /\ source.name.t = "str" /\ source.name.s # <<>>
         THEN PyStr(LastSuffix(source.name.s))
         ELSE PyNone

(* ---- path sources ---- *)
PathIsPdf(path, ext) ==
    ext = PyStr(<<"pdf">>) \/ (ext = PyNone /\ EndsWith(Lower(path), <<".", "pdf">>))

PathIsDocx(path, ext) ==
    \/ ext \in {PyStr(<<"doc">>), PyStr(<<"docx">>)}
    \/ ext = PyNone /\ (EndsWith(Lower(path), <<".", "doc">>) \/ EndsWith(Lower(path), <<".", "docx">>))

PathTextBranch(source) ==
    IF source.exists THEN TextOk(Decoded(source.doc), <<>>) ELSE TextOk(<<>>, <<>>)

(* Variant: with the library missing the file is read as plain text. *)
PathPdfBranchFallThrough(source) ==
    IF ~pdfplumber THEN PathTextBranch(source)
    ELSE PdfText(source.exists, source.doc, <<>>)

PathPdfBranch(source) ==
    IF ~pdfplumber THEN TextOk(<<>>, <<WarnNoPdf>>)
    ELSE PdfText(source.exists, source.doc, <<>>)

PathDocxBranch(source) ==
    IF ~docx THEN TextOk(<<>>, <<WarnNoDocx>>)
    ELSE DocxText(source.exists, source.doc, <<>>)

ReadPath(source, ext) ==
    IF PathIsPdf(source.name.s, ext) THEN PathPdfBranch(source)
    ELSE IF PathIsDocx(source.name.s, ext) THEN PathDocxBranch(source)
    ELSE PathTextBranch(source)

(* ---- stream sources ---- *)
(* guessed_ext; "." in name is a TypeError for a name that is no str *)
GuessedExt(source, ext) ==
    IF ext # PyNone THEN TextOk(ext, <<>>)
    ELSE IF source.name = PyNone THEN TextOk(PyNone, <<>>)
    ELSE IF source.name.t # "str" THEN TextRaise("TypeError", <<>>)
    ELSE IF source.name.s # <<>> /\ "." \in Range(source.name.s)
         THEN TextOk(PyStr(LastSuffix(source.name.s)), <<>>)
         ELSE TextOk(PyNone, <<>>)

(* Variant: the stream is read from where the caller left it. *)
Seek0Missing(source) == source

(* uploaded.seek(0); uploaded.read() *)
Seek0(source) == [source EXCEPT !.pos = 0]
ReadContent(source) == IF source.pos = 0 THEN source.doc ELSE EmptyDoc

BytesIsPdf(guessed, content) ==
    guessed = PyStr(<<"pdf">>) \/ (guessed = PyNone /\ content.fmt = "pdf")

BytesIsDocx(guessed, content) ==
    \/ guessed \in {PyStr(<<"doc">>), PyStr(<<"docx">>)}
    \/ guessed = PyNone /\ content.fmt = "docx"

BytesPdfBranch(content) ==
    IF ~pdfplumber THEN TextOk(<<>>, <<WarnNoPdf>>)
    ELSE PdfText(TRUE, content, <<>>)

BytesDocxBranch(content) ==
    IF ~docx THEN TextOk(<<>>, <<WarnNoDocx>>)
    ELSE DocxText(TRUE, content, <<>>)

ReadBytes(guessed, content) ==
    IF BytesIsPdf(guessed, content) THEN BytesPdfBranch(content)
    ELSE IF BytesIsDocx(guessed, content) THEN BytesDocxBranch(content)
    ELSE TextOk(Decoded(content), <<>>)

ReadStream(source, ext) ==
    LET guessed == GuessedExt(source, ext)
        content == ReadContent(Seek0(source))
    IN IF guessed.raised # "" THEN guessed
       ELSE IF source.kind # "stream" THEN TextRaise("AttributeError", <<>>)
       ELSE IF source.broken THEN TextRaise("OSError", <<>>)
       ELSE IF source.mode = "bytes" THEN ReadBytes(guessed.val, content)
       ELSE TextOk(Decoded(content), <<>>)

ReadFileText(source, ext0) ==
    LET ext == DetectExt(source, ext0)
    IN IF source.kind = "path" THEN ReadPath(source, ext) ELSE ReadStream(source, ext)

(* Variant: no try/except around _read_file_text. *)
ExtractTextUnprotected(source, ext) == ReadFileText(source, ext)

(* extract_text_from_resume *)
ExtractTextFromResume(source, ext) ==
    LET r == ReadFileText(source, ext)
    IN IF r.raised # "" THEN TextOk(<<>>, Append(r.warned, WarnError)) ELSE r

(***************************************************************************)
(* Inputs of the extractor.                                                *)
(***************************************************************************)
PartPool == {<<>>, <<"t1">>, <<"t2">>}

Documents ==
    {[fmt |-> f, ok |-> TRUE, parts |-> q] :
         f \in {"pdf", "docx", "text"}, q \in SeqUpTo(PartPool, MaxParts)}
    \cup {[fmt |-> f, ok |-> FALSE, parts |-> <<>>] : f \in {"pdf", "docx"}}

TextDocuments == {d \in Documents : d.fmt = "text"}

FileNames == {PyStr(<<"cv">>), PyStr(<<"cv", ".", "pdf">>), PyStr(<<"cv", ".", "PDF">>),
              PyStr(<<"cv", ".", "docx">>), PyStr(<<"cv", ".", "txt">>)}

StreamNames == FileNames \cup {PyNone, PyInt(<<"3">>)}

ExtHints == {PyNone, PyStr(<<"pdf">>), PyStr(<<"PDF">>), PyStr(<<"docx">>),
             PyStr(<<"Docx">>), PyStr(<<"doc">>), PyStr(<<"txt">>)}

PathSource(n, e, d) ==
    [kind |-> "path", name |-> n, exists |-> e, doc |-> d, mode |-> "bytes", broken |-> FALSE, pos |-> 0]

StreamSource(n, d, m, b, p) ==
    [kind |-> "stream", name |-> n, exists |-> TRUE, doc |-> d, mode |-> m, broken |-> b, pos |-> p]

NoneSource == [kind |-> "none", name |-> PyNone, exists |-> FALSE, doc |-> EmptyDoc,
               mode |-> "bytes", broken |-> FALSE, pos |-> 0]

Sources ==
    {PathSource(n, TRUE, d) : n \in FileNames, d \in Documents}
    \cup {PathSource(n, FALSE, EmptyDoc) : n \in FileNames}
    \cup {StreamSource(n, d, "bytes", FALSE, p) : n \in StreamNames, d \in Documents, p \in {0, 1}}
    \cup {StreamSource(n, d, "str", FALSE, p) : n \in StreamNames, d \in TextDocuments, p \in {0, 1}}
    \cup {StreamSource(n, EmptyDoc, "bytes", TRUE, 0) : n \in StreamNames}
    \cup {NoneSource}

(***************************************************************************)
(* The extractor as a state machine: Init draws the capability flags the   *)
(* import found, the source and the hint; the action applies               *)
(* extract_text_from_resume.  The extractor does not read nlp.             *)
(***************************************************************************)
InitText ==
    /\ pdfplumber \in BOOLEAN /\ docx \in BOOLEAN /\ nlp = FALSE
    /\ pc = "ready"
    /\ fn = "extract_text_from_resume"
    /\ \E s \in Sources, h \in ExtHints : args = [source |-> s, ext |-> h]
    /\ ret = NoRet
    /\ loads = (IF nlp THEN 1 ELSE 0) /\ frame = <<>> /\ stream = <<>>
    /\ disk = {} /\ skills = {}

CallExtractTextFromResume ==
    /\ pc = "ready"
    /\ fn = "extract_text_from_resume"
    /\ ret' = ExtractTextFromResume(args.source, args.ext)
    /\ pc' = "done"
    /\ UNCHANGED <<pdfplumber, docx, nlp, loads, fn, args, frame, stream, disk, skills>>

NextText == CallExtractTextFromResume

SpecText == InitText /\ [][NextText]_vars

TextDone == pc = "done" /\ fn = "extract_text_from_resume"

(* C1: extract_text_from_resume never raises.  Whatever the source, the
   hint and the libraries present, it returns a value, and when extraction
   fails inside (a library rejects the file, the stream cannot be read, the
   source is no file at all, the name is no string) the value is "" and the
   failure is reported as a warning. *)
C1_ExtractTextNeverRaises ==
    TextDone =>
        /\ ret.raised = ""
        /\ ReadFileText(args.source, args.ext).raised # "" =>
               (ret.val = <<>> /\ WarnError \in Range(ret.warned))
        /\ (args.source.kind = "none" \/ args.source.broken \/ ~args.source.exists) =>
               ret.val = <<>>

(* A corrupt PDF stream, with the PDF library present. *)
C1_Witness ==
    /\ TextDone
    /\ pdfplumber
    /\ args.source.kind = "stream" /\ args.source.mode = "bytes" /\ ~args.source.broken
    /\ args.source.doc.fmt = "pdf" /\ ~args.source.doc.ok
    /\ args.source.name = PyStr(<<"cv", ".", "pdf">>)
    /\ args.ext = PyNone
    /\ ret = TextOk(<<>>, <<WarnError>>)

(* C10: when the format _read_file_text detects is pdf, or doc/docx, and
   the library for it is missing, the result is "" with the warning that
   names the missing library, nothing is raised and no other branch runs:
   for paths and for readable byte streams alike. *)
Readable(source, ext) ==
    \/ source.kind = "path"
    \/ /\ source.kind = "stream" /\ source.mode = "bytes" /\ ~source.broken
       /\ GuessedExt(source, DetectExt(source, ext)).raised = ""

DetectedPdf(source, ext) ==
    IF source.kind = "path"
    THEN PathIsPdf(source.name.s, DetectExt(source, ext))
    ELSE BytesIsPdf(GuessedExt(source, DetectExt(source, ext)).val, source.doc)

DetectedDocx(source, ext) ==
    /\ ~DetectedPdf(source, ext)
    /\ IF source.kind = "path"
       THEN PathIsDocx(source.name.s, DetectExt(source, ext))
       ELSE BytesIsDocx(GuessedExt(source, DetectExt(source, ext)).val, source.doc)

C10_MissingLibraryGivesEmpty ==
    (TextDone /\ Readable(args.source, args.ext)) =>
        /\ (DetectedPdf(args.source, args.ext) /\ ~pdfplumber) => ret = TextOk(<<>>, <<WarnNoPdf>>)
        /\ (DetectedDocx(args.source, args.ext) /\ ~docx) => ret = TextOk(<<>>, <<WarnNoDocx>>)

(* A readable PDF at a path ending in .pdf, no hint, no PDF library. *)
C10_Witness ==
    /\ TextDone
    /\ ~pdfplumber /\ docx
    /\ args.source.kind = "path" /\ args.source.exists
    /\ args.source.name = PyStr(<<"cv", ".", "pdf">>)
    /\ args.source.doc = [fmt |-> "pdf", ok |-> TRUE, parts |-> <<<<"t1">>, <<"t2">>>>]
    /\ args.ext = PyNone
    /\ ret = TextOk(<<>>, <<WarnNoPdf>>)

(* The result the extractor owes a document that is there, once its format
   is settled: the page texts of a PDF, the paragraphs of a DOCX, the
   decoded bytes of anything else; "" and a warning when the library is
   missing or rejects the document. *)
ResultFor(format, doc) ==
    CASE format = "pdf" ->
             IF ~pdfplumber THEN TextOk(<<>>, <<WarnNoPdf>>)
             ELSE IF doc.fmt = "pdf" /\ doc.ok THEN TextOk(JoinPages(doc.parts), <<>>)
             ELSE TextOk(<<>>, <<WarnError>>)
      [] format \in {"doc", "docx"} ->
             IF ~docx THEN TextOk(<<>>, <<WarnNoDocx>>)
             ELSE IF doc.fmt = "docx" /\ doc.ok THEN TextOk(JoinNewline(doc.parts), <<>>)
             ELSE TextOk(<<>>, <<WarnError>>)
      [] OTHER -> TextOk(Decoded(doc), <<>>)

HasSuffix(name) == name.t = "str" /\ "." \in Range(name.s)

SuffixOf(name) == LET pieces == ReSplitOn(name.s, <<>>, {"."}) IN Lower(pieces[Len(pieces)])

Sniffed(doc) == CASE doc.fmt = "pdf" -> "pdf" [] doc.fmt = "docx" -> "docx" [] OTHER -> "unknown"

ByteStream(source) == source.kind = "stream" /\ source.mode = "bytes" /\ ~source.broken

(* hint > filename suffix > content sniffing > unknown *)
EffectiveFormat(source, ext) ==
    IF ext # PyNone THEN ext.s[1]
    ELSE IF HasSuffix(source.name) THEN SuffixOf(source.name)[1]
    ELSE IF ByteStream(source) THEN Sniffed(source.doc)
    ELSE "unknown"

LowerCaseHints == {PyNone, PyStr(<<"pdf">>), PyStr(<<"docx">>), PyStr(<<"doc">>), PyStr(<<"txt">>)}

(* C11: for a file that is there (a path, or a byte stream whose name is a
   string or missing) and a hint that is lower-case or absent, the format
   is the hint, else the suffix of the name, else - for a byte stream -
   what the first bytes say (%PDF is pdf, PK is docx), else unknown; so a
   byte stream without hint whose name has no dot is read as its content
   says, not as its name says. *)
C11_HintThenSuffixThenSniffing ==
    (/\ TextDone
     /\ args.ext \in LowerCaseHints
     /\ \/ args.source.kind = "path" /\ args.source.exists
        \/ ByteStream(args.source) /\ args.source.name.t \in {"str", "None"})
    => ret = ResultFor(EffectiveFormat(args.source, args.ext), args.source.doc)

(* C12: a stream source gives the same outcome whatever position the caller
   left it at: the outcome of the stream positioned at its start, which for
   a text stream is the whole text and for a PDF stream every page. *)
AtStart(source) == [source EXCEPT !.pos = 0]

C12_StreamPositionIrrelevant ==
    (TextDone /\ args.source.kind = "stream") =>
        /\ ret = ExtractTextFromResume(AtStart(args.source), args.ext)
        /\ (/\ ~args.source.broken /\ args.source.name = PyStr(<<"cv", ".", "txt">>)
            /\ args.ext = PyNone /\ args.source.doc.fmt = "text")
           => ret.val = JoinNewline(args.source.doc.parts)
        /\ (/\ ByteStream(args.source) /\ args.source.name = PyStr(<<"cv", ".", "pdf">>)
            /\ args.ext = PyNone /\ args.source.doc.fmt = "pdf" /\ args.source.doc.ok
            /\ pdfplumber)
           => ret.val = JoinPages(args.source.doc.parts)

(* A text stream the caller has already read past its start. *)
C12_Witness ==
    /\ TextDone
    /\ ByteStream(args.source) /\ args.source.pos = 1
    /\ args.source.name = PyStr(<<"cv", ".", "txt">>)
    /\ args.ext = PyNone
    /\ args.source.doc = [fmt |-> "text", ok |-> TRUE, parts |-> <<<<"t1">>, <<"t2">>>>]
    /\ ret = TextOk(<<"t1", "\n", "t2">>, <<>>)

(* C21: an extension hint given in upper or mixed case ("PDF", "Docx")
   selects the same extraction branch as its lower-case form, for path and
   for stream sources: the outcome of the call is the outcome of the call
   with the hint lower-cased. *)
LowerHint(ext) == IF ext.t = "str" THEN PyStr(Lower(ext.s)) ELSE ext

C21_HintCaseIrrelevant ==
    (TextDone /\ args.ext.t = "str") =>
        ret = ExtractTextFromResume(args.source, LowerHint(args.ext))

(* A PDF that is read as a PDF: the PDF branch is taken, the library
   is there and accepts the document. *)
PdfIsRead(source, ext) ==
    /\ pdfplumber
    /\ Readable(source, ext) /\ source.exists
    /\ DetectedPdf(source, ext)
    /\ source.doc.fmt = "pdf" /\ source.doc.ok

KeptPages(parts) == SelectSeq(parts, LAMBDA t : t # <<>>)

(* C22 as stated: the texts of the pages that yield text, in page order,
   joined with one newline between consecutive kept pages and nothing after
   the last one. *)
C22_PagesSeparatorJoined ==
    (TextDone /\ PdfIsRead(args.source, args.ext)) =>
        ret = TextOk(JoinNewline(KeptPages(args.source.doc.parts)), <<>>)

(* C22, amended: the texts of the pages that yield text, in page order,
   each followed by one newline, the last one included; pages that yield no
   text contribute nothing and no error or warning arises. *)
C22_PagesNewlineTerminated ==
    (TextDone /\ PdfIsRead(args.source, args.ext)) =>
        LET kept == KeptPages(args.source.doc.parts)
        IN ret = TextOk(IF kept = <<>> THEN <<>> ELSE JoinNewline(kept) \o <<"\n">>, <<>>)

(* A PDF stream whose first page yields no text and whose second does. *)
C22_Witness ==
    /\ TextDone
    /\ PdfIsRead(args.source, args.ext)
    /\ args.source.kind = "stream"
    /\ args.source.doc.parts = <<<<>>, <<"t2">>>>
    /\ ret = TextOk(<<"t2", "\n">>, <<>>)

(***************************************************************************)
(*                         ENTITY EXTRACTOR                                *)
(*                                                                         *)
(* A text is a sequence of words, "." and "\n"; a keyword phrase such as   *)
(* "worked at" is one word.  A segment contains a keyword when one of its  *)
(* words, lower-cased, is the keyword.                                     *)
(***************************************************************************)
TextWords == {"Experience", "worked at", "responsible for", "role:", "position:", "2019", "1850",
              "hiking", ".", "\n"}

FourDigitWords == {"2019", "1850"}
YearWords == {"2019"}

HasWord(seg, kw) == \E k \in DOMAIN seg : LowerChar(seg[k]) = kw

(* doc.sents of the sentence segmenter: a sentence ends with its "." *)
RECURSIVE Sentences(_, _)
Sentences(words, cur) ==
    IF words = <<>> THEN (IF cur = <<>> THEN <<>> ELSE <<cur>>)
    ELSE IF Head(words) = "."
         THEN <<Append(cur, ".")>> \o Sentences(Tail(words), <<>>)
         ELSE Sentences(Tail(words), Append(cur, Head(words)))

(* re.split(r"\n{1,}", text) *)
RECURSIVE DropNewlines(_)
DropNewlines(words) ==
    IF words # <<>> /\ Head(words) = "\n" THEN DropNewlines(Tail(words)) ELSE words

RECURSIVE SplitLines(_, _)
SplitLines(words, piece) ==
    IF words = <<>> THEN <<piece>>
    ELSE IF Head(words) = "\n"
         THEN <<piece>> \o SplitLines(DropNewlines(Tail(words)), <<>>)
         ELSE SplitLines(Tail(words), Append(piece, Head(words)))

(* The heuristics of the segmenter path. *)
QualifiesSent(s) ==
    \/ HasWord(s, "experience")
    \/ HasWord(s, "worked at")
    \/ HasWord(s, "responsible for")
    \/ \E k \in DOMAIN s : s[k] \in FourDigitWords

(* Variant: the line path also takes "role:". *)
QualifiesLineWithRole(s) ==
    \/ HasWord(s, "experience")
    \/ HasWord(s, "worked at")
    \/ HasWord(s, "role:")
    \/ \E k \in DOMAIN s : s[k] \in YearWords

(* The heuristics of the line path. *)
QualifiesLine(s) ==
    \/ HasWord(s, "experience")
    \/ HasWord(s, "worked at")
    \/ \E k \in DOMAIN s : s[k] \in YearWords

(* for sent in doc.sents: append when it qualifies, break once len(results) >= limit *)
RECURSIVE CollectSents(_, _, _)
CollectSents(sents, results, limit) ==
    IF sents = <<>> THEN results
    ELSE LET s == Strip(Head(sents))
         IN IF QualifiesSent(s)
            THEN IF Len(results) + 1 >= limit THEN Append(results, s)
                 ELSE CollectSents(Tail(sents), Append(results, s), limit)
            ELSE CollectSents(Tail(sents), results, limit)

(* for line in lines: skip blank lines, append when it qualifies, break once
   len(results) >= limit *)
RECURSIVE CollectLines(_, _, _)
CollectLines(lines, results, limit) ==
    IF lines = <<>> THEN results
    ELSE LET s == Strip(Head(lines))
         IN IF s = <<>> THEN CollectLines(Tail(lines), results, limit)
            ELSE IF QualifiesLine(s)
            THEN IF Len(results) + 1 >= limit THEN Append(results, s)
                 ELSE CollectLines(Tail(lines), Append(results, s), limit)
            ELSE CollectLines(Tail(lines), results, limit)

ExtractExperience(text, limit) ==
    IF text = <<>> THEN Ok(<<>>)
    ELSE IF nlp THEN Ok(CollectSents(Sentences(text, <<>>), <<>>, limit))
    ELSE Ok(CollectLines(SplitLines(text, <<>>), <<>>, limit))

(***************************************************************************)
(* extract_education.  The pattern \b(university|...|mba)\b with re.I      *)
(* matches a segment that holds one of the keywords as a word, in any      *)
(* case.  The two paths carry their own copy of the pattern.               *)
(***************************************************************************)
MaxEduTextLen == 4

EducationKeywords == {"university", "college", "bachelor", "master", "degree", "phd", "mba"}

SentHasEducationWord(s) == \E k \in DOMAIN s : LowerChar(s[k]) \in EducationKeywords

(* Variant: the pattern of the line path lacks "degree". *)
LineHasEducationWordNoDegree(s) ==
    \E k \in DOMAIN s : LowerChar(s[k]) \in (EducationKeywords \ {"degree"})

LineHasEducationWord(s) == \E k \in DOMAIN s : LowerChar(s[k]) \in EducationKeywords

(* text.splitlines() *)
RECURSIVE StrSplitLines(_, _)
StrSplitLines(words, piece) ==
    IF words = <<>> THEN (IF piece = <<>> THEN <<>> ELSE <<piece>>)
    ELSE IF Head(words) = "\n"
         THEN <<piece>> \o StrSplitLines(Tail(words), <<>>)
         ELSE StrSplitLines(Tail(words), Append(piece, Head(words)))

(* Variant: the text is searched whole, not sentence by sentence. *)
EducationFromSentsWhole(text) ==
    IF SentHasEducationWord(Strip(text)) THEN PyStr(Strip(text)) ELSE PyNone

(* for sent in doc.sents: return the first stripped sentence that matches.
   The entity loop that follows finds nothing then: an entity is a run of
   words of the text, which lies in some sentence, and a sentence that
   holds a word "university" or "college" has matched already. *)
EducationFromSents(text) ==
    LET sents == Sentences(text, <<>>)
        hits == {k \in DOMAIN sents : SentHasEducationWord(Strip(sents[k]))}
    IN IF hits = {} THEN PyNone
       ELSE PyStr(Strip(sents[CHOOSE k \in hits : \A j \in hits : k <= j]))

(* for line in text.splitlines(): return the first matching line, stripped *)
EducationFromLines(text) ==
    LET lines == StrSplitLines(text, <<>>)
        hits == {k \in DOMAIN lines : LineHasEducationWord(lines[k])}
    IN IF hits = {} THEN PyNone
       ELSE PyStr(Strip(lines[CHOOSE k \in hits : \A j \in hits : k <= j]))

(* Variant: a text in which nothing matches is returned itself. *)
ExtractEducationWholeText(text) ==
    IF text = <<>> THEN Ok(PyNone)
    ELSE LET r == IF nlp THEN EducationFromSents(text) ELSE EducationFromLines(text)
         IN IF r = PyNone THEN Ok(PyStr(Strip(text))) ELSE Ok(r)

ExtractEducation(text) ==
    IF text = <<>> THEN Ok(PyNone)
    ELSE IF nlp THEN Ok(EducationFromSents(text))
    ELSE Ok(EducationFromLines(text))

EduWords == {"University", "degree", "hiking", ".", "\n"}

(* "I studied at Acme University. I also like hiking." *)
ExampleEducationText ==
    <<"I", "studied", "at", "Acme", "University", ".", "I", "also", "like", "hiking", ".">>

EducationTexts == SeqUpTo(EduWords, MaxEduTextLen) \cup {ExampleEducationText}

(***************************************************************************)
(* The entity extractor as a state machine: Init draws the nlp flag the    *)
(* import found and the arguments of one call; the actions apply           *)
(* extract_experience and extract_education.  They read neither            *)
(* pdfplumber nor docx.                                                    *)
(***************************************************************************)
InitEntity ==
    /\ pdfplumber = FALSE /\ docx = FALSE /\ nlp \in BOOLEAN
    /\ pc = "ready"
    /\ \/ /\ fn = "extract_experience"
          /\ \E x \in SeqUpTo(TextWords, MaxTextLen), n \in 0..MaxLimit :
                 args = [text |-> x, limit |-> n]
       \/ /\ fn = "extract_education"
          /\ \E x \in EducationTexts : args = [text |-> x]
    /\ ret = NoRet
    /\ loads = (IF nlp THEN 1 ELSE 0) /\ frame = <<>> /\ stream = <<>>
    /\ disk = {} /\ skills = {}

CallExtractEducation ==
    /\ pc = "ready"
    /\ fn = "extract_education"
    /\ ret' = ExtractEducation(args.text)
    /\ pc' = "done"
    /\ UNCHANGED <<pdfplumber, docx, nlp, loads, fn, args, frame, stream, disk, skills>>

CallExtractExperience ==
    /\ pc = "ready"
    /\ fn = "extract_experience"
    /\ ret' = ExtractExperience(args.text, args.limit)
    /\ pc' = "done"
    /\ UNCHANGED <<pdfplumber, docx, nlp, loads, fn, args, frame, stream, disk, skills>>

NextEntity == CallExtractExperience \/ CallExtractEducation

SpecEntity == InitEntity /\ [][NextEntity]_vars

ExperienceDone == pc = "done" /\ fn = "extract_experience"

EducationDone == pc = "done" /\ fn = "extract_education"

(* C9: for every text and every limit, 0 included, extract_experience
   returns at most limit entries, on the segmenter path and on the line
   path. *)
C9_AtMostLimitEntries ==
    ExperienceDone => (ret.raised = "" /\ Len(ret.val) <= args.limit)

(***************************************************************************)
(* Vocabulary of the entity claims.  The segments of a text are its        *)
(* sentences when the segmenter is there and its lines when it is not,     *)
(* stripped, the blank ones left out.                                      *)
(***************************************************************************)
StrippedNonBlank(segs) ==
    LET stripped == [k \in DOMAIN segs |-> Strip(segs[k])]
    IN SelectSeq(stripped, LAMBDA g : g # <<>>)

SentenceSegments(text) == StrippedNonBlank(Sentences(text, <<>>))
LineSegments(text) == StrippedNonBlank(SplitLines(text, <<>>))
Segments(text) == IF nlp THEN SentenceSegments(text) ELSE LineSegments(text)

Holds(seg, words) == \E k \in DOMAIN seg : seg[k] \in words

Take(q, n) == SubSeq(q, 1, IF Len(q) < n THEN Len(q) ELSE n)

(* The first segment that holds one of the words, as a str, else None. *)
FirstHolding(segs, words) ==
    IF \A k \in DOMAIN segs : ~Holds(segs[k], words) THEN PyNone
    ELSE PyStr(segs[CHOOSE k \in DOMAIN segs :
                        Holds(segs[k], words) /\ \A j \in 1..(k - 1) : ~Holds(segs[j], words)])

EducationWords == {"University", "degree"}

FirstExampleSentence == <<"I", "studied", "at", "Acme", "University", ".">>

(* C16 as stated: extract_education returns the first segment, in text
   order, that holds an education keyword, and nothing when none does; for
   the example text it returns the first sentence alone, with the segmenter
   and without it. *)
C16_FirstMatchingSegmentOnly ==
    EducationDone =>
        /\ ret = Ok(FirstHolding(Segments(args.text), EducationWords))
        /\ args.text = ExampleEducationText => ret = Ok(PyStr(FirstExampleSentence))

(* C16 amended: extract_education returns the first segment that holds an
   education keyword, a sentence with the segmenter and a whole line
   without it; for the example text, which is one line, that is the first
   sentence alone with the segmenter and the whole text without it. *)
C16_FirstMatchingSentenceOrLine ==
    EducationDone =>
        /\ ret = Ok(FirstHolding(Segments(args.text), EducationWords))
        /\ (args.text = ExampleEducationText /\ nlp) => ret = Ok(PyStr(FirstExampleSentence))
        /\ (args.text = ExampleEducationText /\ ~nlp) => ret = Ok(PyStr(ExampleEducationText))

(* The example text, with the segmenter. *)
C16_Witness ==
    /\ EducationDone
    /\ nlp
    /\ args.text = ExampleEducationText
    /\ ret = Ok(PyStr(FirstExampleSentence))

ClaimedExperienceWords ==
    {"Experience", "worked at", "responsible for", "role:", "position:", "2019"}

SentenceExperienceWords == {"Experience", "worked at", "responsible for", "2019", "1850"}

LineExperienceWords == {"Experience", "worked at", "2019"}

(* C17 as stated: on both paths the entries are the segments that hold
   "experience", "worked at", "responsible for", "role:", "position:" or a
   year of 1900-2099 (2019 is one, 1850 is none), and no others. *)
C17_OneCriterionBothPaths ==
    (ExperienceDone /\ args.limit >= 1) =>
        ret = Ok(Take(SelectSeq(Segments(args.text),
                                LAMBDA g : Holds(g, ClaimedExperienceWords)),
                      args.limit))

(* C17 amended: with the segmenter the entries are the sentences that hold
   "experience", "worked at", "responsible for" or any number of four
   digits (1850 as well as 2019); without it they are the lines that hold
   "experience", "worked at" or a number of four digits that begins with 19
   or 20; "role:" and "position:" qualify a segment on neither path. *)
C17_CriterionOfEachPath ==
    (ExperienceDone /\ args.limit >= 1) =>
        ret = Ok(Take(SelectSeq(Segments(args.text),
                                LAMBDA g : Holds(g, IF nlp THEN SentenceExperienceWords
                                                    ELSE LineExperienceWords)),
                      args.limit))

(* Three lines without the segmenter: "responsible for" and "role:" are
   passed over, the year is taken. *)
C17_Witness ==
    /\ ExperienceDone
    /\ ~nlp
    /\ args.text = <<"responsible for", "\n", "role:", "2019">>
    /\ args.limit = 2
    /\ ret = Ok(<<<<"role:", "2019">>>>)

(* Every sentence of the text is on a line of its own. *)
SentencePerLine(text) == SentenceSegments(text) = LineSegments(text)

ExperienceBySentences(text, limit) == Ok(CollectSents(Sentences(text, <<>>), <<>>, limit))
ExperienceByLines(text, limit) == Ok(CollectLines(SplitLines(text, <<>>), <<>>, limit))

(* C18 as stated: for a text with every sentence on its own line, each of
   extract_experience and extract_education returns what it would return
   with the segmenter and what it would return without it. *)
C18_SegmenterMakesNoDifference ==
    /\ (ExperienceDone /\ SentencePerLine(args.text)) =>
           /\ ret = ExperienceBySentences(args.text, args.limit)
           /\ ret = ExperienceByLines(args.text, args.limit)
    /\ (EducationDone /\ SentencePerLine(args.text)) =>
           /\ ret = Ok(EducationFromSents(args.text))
           /\ ret = Ok(EducationFromLines(args.text))

(* C18 amended: for a text with every sentence on its own line,
   extract_education returns the same value with the segmenter as without
   it, and so does extract_experience when the text holds neither
   "responsible for" nor a number of four digits outside 1900-2099. *)
C18_SegmenterDifferenceConfined ==
    /\ (/\ ExperienceDone /\ SentencePerLine(args.text)
        /\ ~Holds(args.text, {"responsible for", "1850"})) =>
           /\ ret = ExperienceBySentences(args.text, args.limit)
           /\ ret = ExperienceByLines(args.text, args.limit)
    /\ (EducationDone /\ SentencePerLine(args.text)) =>
           /\ ret = Ok(EducationFromSents(args.text))
           /\ ret = Ok(EducationFromLines(args.text))

(* Two sentences on two lines, read without the segmenter. *)
C18_Witness ==
    /\ EducationDone
    /\ ~nlp
    /\ args.text = <<"hiking", ".", "\n", "degree">>
    /\ SentencePerLine(args.text)
    /\ ret = Ok(PyStr(<<"degree">>))

(* The segments that qualify by the criterion of the path taken. *)
QualifyingSegments(text) ==
    SelectSeq(Segments(text),
              LAMBDA g : Holds(g, IF nlp THEN SentenceExperienceWords ELSE LineExperienceWords))

(* C25: extract_experience returns exactly the first min(limit, q)
   qualifying segments in text order, q being the number of qualifying
   segments: none is skipped for a later one and the scan stops once limit
   entries are collected, for every limit, 0 included. *)
C25_FirstMinLimitQualifying ==
    ExperienceDone =>
        /\ ret.raised = ""
        /\ ret.val = Take(QualifyingSegments(args.text), args.limit)

(***************************************************************************)
(*                           SKILL EXTRACTOR                               *)
(*                                                                         *)
(* extract_skills.  A text is a sequence of symbols: a symbol is a word of *)
(* three or more letters taken whole ("Python"), the one-letter word "I",  *)
(* a blank or a ".".  A skill is a string of the same symbols, so          *)
(* "JavaScript" is "Java" followed by "Script" and holds "Java".           *)
(***************************************************************************)
MaxSkillTextLen == 3
MaxVocabulary == 3

DefaultVocabulary ==
    <<PyStr(<<"Python">>), PyStr(<<"Java">>), PyStr(<<"Excel">>),
      PyStr(<<"Machine", " ", "Learning">>), PyStr(<<"Django">>), PyStr(<<"React">>),
      PyStr(<<"SQL">>), PyStr(<<"Project", " ", "Management">>),
      PyStr(<<"Communication">>), PyStr(<<"Leadership">>), PyStr(<<"AWS">>),
      PyStr(<<"Docker">>), PyStr(<<"Kubernetes">>), PyStr(<<"REST">>),
      PyStr(<<"GraphQL">>), PyStr(<<"Type", "Script">>), PyStr(<<"Java", "Script">>),
      PyStr(<<"HTML">>), PyStr(<<"CSS">>)>>

(* needle in hay *)
IsSubSeq(needle, hay) ==
    \E k \in 0..(Len(hay) - Len(needle)) : SubSeq(hay, k + 1, k + Len(needle)) = needle

(* if skills_list: ... else: the default list *)
Candidates(skills_list) ==
    IF skills_list.t = "list" /\ skills_list.items # <<>>
    THEN skills_list.items
    ELSE DefaultVocabulary

(* The position of the first occurrence of needle in hay. *)
FirstIndex(needle, hay) ==
    CHOOSE k \in 0..(Len(hay) - Len(needle)) :
        /\ SubSeq(hay, k + 1, k + Len(needle)) = needle
        /\ \A j \in 0..(k - 1) : SubSeq(hay, j + 1, j + Len(needle)) # needle

(* Variant: the matches are listed in the order the text mentions them. *)
FoundCandidatesTextOrder(candidates, text_lower) ==
    LET m == SelectSeq(candidates,
                       LAMBDA skill : skill.s # <<>> /\ IsSubSeq(Lower(skill.s), text_lower))
        At(i) == FirstIndex(Lower(m[i].s), text_lower)
        Rank(i) == Cardinality({j \in DOMAIN m : At(j) < At(i) \/ (At(j) = At(i) /\ j < i)}) + 1
    IN [k \in DOMAIN m |-> m[CHOOSE i \in DOMAIN m : Rank(i) = k]]

(* Variant: a candidate matches only as a whole word of the text. *)
FoundCandidatesWholeWord(candidates, text_lower) ==
    LET Edge(c) == c \in {" ", ".", "\n"}
        Whole(needle) ==
            \E k \in 0..(Len(text_lower) - Len(needle)) :
                /\ SubSeq(text_lower, k + 1, k + Len(needle)) = needle
                /\ (k = 0 \/ Edge(text_lower[k]))
                /\ (k + Len(needle) = Len(text_lower) \/ Edge(text_lower[k + Len(needle) + 1]))
    IN SelectSeq(candidates, LAMBDA skill : skill.s # <<>> /\ Whole(Lower(skill.s)))

(* for skill in candidates: if skill and skill.lower() in text_lower *)
FoundCandidates(candidates, text_lower) ==
    SelectSeq(candidates,
              LAMBDA skill : skill.s # <<>> /\ IsSubSeq(Lower(skill.s), text_lower))

(* The symbols of the pattern \b[A-Z][a-zA-Z0-9\+\#\.\-]{2,}\b : a word
   symbol is made of word characters, "." is in the class but is no word
   character, a blank is neither. *)
WordSym(c) == c \notin {" ", ".", "\n"}
ClassSym(c) == c \notin {" ", "\n"}
Capital(c) == c \in {"Python", "PYTHON", "AWS", "Java", "Script", "University", "Degree", "I",
                     "Flask", "FLASK"}
CharCount(c) == IF c \in {"I", "i", ".", " ", "\n"} THEN 1 ELSE 3

RECURSIVE CharsOf(_)
CharsOf(chunk) == IF chunk = <<>> THEN 0 ELSE CharCount(Head(chunk)) + CharsOf(Tail(chunk))

(* The maximal runs of class symbols. *)
RECURSIVE Chunks(_, _)
Chunks(text, cur) ==
    IF text = <<>> THEN (IF cur = <<>> THEN <<>> ELSE <<cur>>)
    ELSE IF ClassSym(Head(text)) THEN Chunks(Tail(text), Append(cur, Head(text)))
    ELSE (IF cur = <<>> THEN <<>> ELSE <<cur>>) \o Chunks(Tail(text), <<>>)

(* The match inside one run: it starts at the first word start that is a
   capital with two more class characters behind it, runs greedily to the
   end of the run and gives back the trailing "."s to end on a boundary. *)
ChunkMatch(chunk) ==
    LET words == {p \in DOMAIN chunk : WordSym(chunk[p])}
        q == IF words = {} THEN 0 ELSE CHOOSE p \in words : \A r \in words : r <= p
        starts == {p \in words : /\ (p = 1 \/ chunk[p - 1] = ".")
                                 /\ Capital(chunk[p])
                                 /\ CharsOf(SubSeq(chunk, p, q)) >= 3}
    IN IF starts = {} THEN <<>>
       ELSE <<PyStr(SubSeq(chunk, CHOOSE p \in starts : \A r \in starts : p <= r, q))>>

RECURSIVE MatchAll(_)
MatchAll(chunks) ==
    IF chunks = <<>> THEN <<>> ELSE ChunkMatch(Head(chunks)) \o MatchAll(Tail(chunks))

(* re.findall(pattern, text) *)
FindAll(text) == MatchAll(Chunks(text, <<>>))

AsStrs(names) == [k \in DOMAIN names |-> PyStr(names[k])]

(* Variant: the capitalised words are added whether or not a candidate
   matched. *)
SkillsFromFallbackAlways(text, candidates) ==
    LET found == FoundCandidates(candidates, Lower(text))
    IN NormalizeItems(found \o AsStrs(NormalizeItems(FindAll(text))))

(* The body of extract_skills once the candidates are chosen. *)
SkillsFrom(text, candidates) ==
    LET found == FoundCandidates(candidates, Lower(text))
    IN IF found = <<>>
       THEN NormalizeItems(found \o AsStrs(NormalizeItems(FindAll(text))))
       ELSE NormalizeItems(found)

ExtractSkills(text, skills_list) ==
    IF text = <<>> THEN Ok(<<>>)
    ELSE Ok(SkillsFrom(text, Candidates(skills_list)))

(***************************************************************************)
(* Inputs of extract_skills: short texts, the text of the documented       *)
(* example, and as skills_list None, [] or a list of distinct skills.      *)
(***************************************************************************)
SkillTextSyms == {"Python", "python", "PYTHON", "AWS", " "}

ExampleText == <<"I", " ", "have", " ", "strong", " ", "Python", " ", "and", " ", "AWS",
                 " ", "experience", ".">>

SkillPool == {PyStr(<<"Python">>), PyStr(<<"python">>), PyStr(<<"AWS">>),
              PyStr(<<"Java">>), PyStr(<<" ", "PYTHON">>), PyStr(<<" ">>)}

(* "JavaScript": the skill Java inside a longer word *)
LongerWordText == <<"Java", "Script">>

SkillTexts == SeqUpTo(SkillTextSyms, MaxSkillTextLen) \cup {ExampleText, LongerWordText}

SkillLists == {PyNone} \cup {PyList(v) : v \in DistinctSeqUpTo(SkillPool, MaxVocabulary)}

InitSkills ==
    /\ pdfplumber = FALSE /\ docx = FALSE /\ nlp = FALSE
    /\ pc = "ready"
    /\ fn = "extract_skills"
    /\ \E x \in SkillTexts, v \in SkillLists : args = [text |-> x, skills_list |-> v]
    /\ ret = NoRet
    /\ loads = (IF nlp THEN 1 ELSE 0) /\ frame = <<>> /\ stream = <<>>
    /\ disk = {} /\ skills = {}

CallExtractSkills ==
    /\ pc = "ready"
    /\ fn = "extract_skills"
    /\ ret' = ExtractSkills(args.text, args.skills_list)
    /\ pc' = "done"
    /\ UNCHANGED <<pdfplumber, docx, nlp, loads, fn, args, frame, stream, disk, skills>>

NextSkills == CallExtractSkills

SpecSkills == InitSkills /\ [][NextSkills]_vars

SkillsDone == pc = "done" /\ fn = "extract_skills"

(***************************************************************************)
(* Vocabulary of the skill claims.                                         *)
(***************************************************************************)
Mentions(text, skill) == skill.s # <<>> /\ IsSubSeq(Lower(skill.s), Lower(text))

(* The matches in the order extract_skills meets them: the candidates the
   text mentions, in candidate order, or, when it mentions none, the
   capitalised words of the text, in text order. *)
SeenMatches(text, candidates) ==
    LET m == SelectSeq(candidates, LAMBDA skill : Mentions(text, skill))
    IN IF m = <<>> THEN FindAll(text) ELSE m

KeyOf(v) == Lower(Strip(v.s))

(* The positions that hold the first member of their group of case variants. *)
FirstOfGroup(m) ==
    {i \in DOMAIN m : Strip(m[i].s) # <<>> /\ \A j \in 1..(i - 1) : KeyOf(m[j]) # KeyOf(m[i])}

NthOf(F, k) == CHOOSE i \in F : Cardinality({j \in F : j <= i}) = k

FirstSeen(m) ==
    [k \in 1..Cardinality(FirstOfGroup(m)) |-> Strip(m[NthOf(FirstOfGroup(m), k)].s)]

(* C13: the list extract_skills returns holds no two entries with the same
   lower-cased form, and it is the list of matches with every match dropped
   that has an earlier case variant: the first of each group stays, cased
   as it was met, in the order of meeting. *)
C13_DistinctFirstSeenCasing ==
    SkillsDone =>
        /\ ret.raised = ""
        /\ \A a, b \in DOMAIN ret.val : Lower(ret.val[a]) = Lower(ret.val[b]) => a = b
        /\ args.text # <<>> =>
               ret.val = FirstSeen(SeenMatches(args.text, Candidates(args.skills_list)))

(* Two case variants of one skill are candidates and the text mentions it. *)
C13_Witness ==
    /\ SkillsDone
    /\ args.skills_list = PyList(<<PyStr(<<"python">>), PyStr(<<"AWS">>), PyStr(<<"Python">>)>>)
    /\ args.text = <<"AWS", " ", "PYTHON">>
    /\ ret = Ok(<<<<"python">>, <<"AWS">>>>)

(* C14: when a list is passed as skills_list, the empty list included, an
   entry of the result is a member of that list (stripped) or, when the
   text mentions no member, a capitalised word of the text; the default
   vocabulary contributes nothing. *)
C14_SuppliedListIsExhaustive ==
    (SkillsDone /\ args.skills_list.t = "list") =>
        \A k \in DOMAIN ret.val :
            \/ \E i \in DOMAIN args.skills_list.items :
                   Strip(args.skills_list.items[i].s) = ret.val[k]
            \/ /\ \A i \in DOMAIN args.skills_list.items :
                      ~Mentions(args.text, args.skills_list.items[i])
               /\ \E m \in Range(FindAll(args.text)) : m.s = ret.val[k]

(* The index in V of the first candidate the text mentions whose stripped
   form is the entry e. *)
VIndex(text, V, e) ==
    CHOOSE i \in DOMAIN V :
        /\ Mentions(text, V[i]) /\ Strip(V[i].s) = e
        /\ \A j \in 1..(i - 1) : ~(Mentions(text, V[j]) /\ Strip(V[j].s) = e)

(* C15: when the text mentions a candidate of V, every entry returned is a
   mentioned candidate, every mentioned candidate has its case group in the
   result, and the entries stand in the order of V, whatever the order of
   the text and of the alphabet; the documented example gives Python, AWS. *)
C15_VocabularyOrder ==
    (/\ SkillsDone
     /\ args.skills_list.t = "list"
     /\ \E i \in DOMAIN args.skills_list.items : Mentions(args.text, args.skills_list.items[i]))
    => LET V == args.skills_list.items
           text == args.text
       IN /\ \A k \in DOMAIN ret.val :
                 \E i \in DOMAIN V : Mentions(text, V[i]) /\ Strip(V[i].s) = ret.val[k]
          /\ \A i \in DOMAIN V :
                 (Mentions(text, V[i]) /\ Strip(V[i].s) # <<>>) =>
                     \E k \in DOMAIN ret.val : Lower(ret.val[k]) = KeyOf(V[i])
          /\ \A a, b \in DOMAIN ret.val :
                 a < b => VIndex(text, V, ret.val[a]) < VIndex(text, V, ret.val[b])
          /\ (text = ExampleText
              /\ V = <<PyStr(<<"Python">>), PyStr(<<"AWS">>), PyStr(<<"Java">>)>>)
             => ret.val = <<<<"Python">>, <<"AWS">>>>
          /\ (text = <<"AWS", " ", "Python">> /\ V = <<PyStr(<<"Python">>), PyStr(<<"AWS">>)>>)
             => ret.val = <<<<"Python">>, <<"AWS">>>>

(* The documented example. *)
C15_Witness ==
    /\ SkillsDone
    /\ args.text = ExampleText
    /\ args.skills_list = PyList(<<PyStr(<<"Python">>), PyStr(<<"AWS">>), PyStr(<<"Java">>)>>)
    /\ ret = Ok(<<<<"Python">>, <<"AWS">>>>)

(* The result holds the candidate, in its own casing or in that of an
   earlier case variant. *)
Reported(skill) == \E k \in DOMAIN ret.val : Lower(ret.val[k]) = KeyOf(skill)

(* C23: a candidate is reported exactly when its lower-cased form is a
   substring of the lower-cased text, word boundaries playing no part: a
   candidate the text contains is reported, a candidate (written without
   surrounding blanks) that is reported is contained in the text, and Java
   is reported for the text "JavaScript". *)
C23_SubstringContainment ==
    (SkillsDone /\ args.text # <<>>) =>
        LET V == Candidates(args.skills_list)
            text == args.text
        IN /\ \A i \in DOMAIN V :
                  Strip(V[i].s) # <<>> =>
                      /\ IsSubSeq(Lower(V[i].s), Lower(text)) => Reported(V[i])
                      /\ (Strip(V[i].s) = V[i].s /\ Reported(V[i]))
                             => IsSubSeq(Lower(V[i].s), Lower(text))
           /\ (text = LongerWordText /\ args.skills_list = PyNone)
                  => ret.val = <<<<"Java">>, <<"Java", "Script">>>>
           /\ (text = <<"python", "AWS">> /\ args.skills_list = PyList(<<PyStr(<<"AWS">>)>>))
                  => ret.val = <<<<"AWS">>>>

(* The candidate AWS inside the word "pythonAWS". *)
C23_Witness ==
    /\ SkillsDone
    /\ args.text = <<"python", "AWS">>
    /\ args.skills_list = PyList(<<PyStr(<<"AWS">>), PyStr(<<"Java">>)>>)
    /\ ret = Ok(<<<<"AWS">>>>)

(* C24: the capitalised-word fallback runs exactly when no candidate
   matches.  When a candidate matches, every entry of the result is a
   candidate (stripped) and no capitalised word of the text is added; when
   none matches, the result is the list of capitalised tokens of the text,
   in text order, with every token dropped that has an earlier case
   variant. *)
C24_FallbackIffNoCandidateMatches ==
    (SkillsDone /\ args.text # <<>>) =>
        LET V == Candidates(args.skills_list)
            text == args.text
            hit == \E i \in DOMAIN V : Mentions(text, V[i])
        IN /\ hit => \A k \in DOMAIN ret.val :
                         \E i \in DOMAIN V : Strip(V[i].s) = ret.val[k]
           /\ ~hit => ret.val = FirstSeen(FindAll(text))
           /\ (text = <<"Python", " ", "AWS">> /\ args.skills_list = PyList(<<PyStr(<<"AWS">>)>>))
                  => ret.val = <<<<"AWS">>>>
           /\ (text = <<"Python", " ", "AWS">> /\ args.skills_list = PyList(<<PyStr(<<"Java">>)>>))
                  => ret.val = <<<<"Python">>, <<"AWS">>>>
           /\ (text = <<"Python", " ", "AWS">> /\ args.skills_list = PyList(<<PyStr(<<" ">>)>>))
                  => ret.val = <<>>

(* One candidate matches and the text holds a capitalised word that is no
   candidate. *)
C24_Witness ==
    /\ SkillsDone
    /\ args.text = <<"Python", " ", "AWS">>
    /\ args.skills_list = PyList(<<PyStr(<<"AWS">>), PyStr(<<"Java">>)>>)
    /\ ret = Ok(<<<<"AWS">>>>)

(***************************************************************************)
(* The three entity operations side by side: one call of extract_skills,   *)
(* extract_experience or extract_education.                                *)
(***************************************************************************)
InitExtractors == InitSkills \/ InitEntity

NextExtractors == CallExtractSkills \/ CallExtractExperience \/ CallExtractEducation

SpecExtractors == InitExtractors /\ [][NextExtractors]_vars

(* C26: on the empty text, and on a text in which nothing matches, each
   extractor returns its empty value and raises nothing: extract_skills
   and extract_experience the empty list, extract_education None. *)
C26_EmptyValueWithoutRaising ==
    /\ SkillsDone =>
           /\ ret.raised = ""
           /\ (\/ args.text = <<>>
               \/ ~Holds(args.text, {"Python", "python", "PYTHON", "AWS", "Java"}))
              => ret.val = <<>>
    /\ ExperienceDone =>
           /\ ret.raised = ""
           /\ (\/ args.text = <<>>
               \/ ~Holds(args.text, SentenceExperienceWords \cup LineExperienceWords))
              => ret.val = <<>>
    /\ EducationDone =>
           /\ ret.raised = ""
           /\ (args.text = <<>> \/ ~Holds(args.text, EducationWords)) => ret.val = PyNone

(* A text of two lines with no education keyword, read without the
   segmenter. *)
C26_Witness ==
    /\ EducationDone
    /\ ~nlp
    /\ args.text = <<"hiking", ".", "\n", "hiking">>
    /\ ret = Ok(PyNone)

(***************************************************************************)
(* extract_skills called again and again in one process.  frame is the     *)
(* record of the calls made so far, arguments and result: whatever a call  *)
(* could leave behind for a later one.  The function keeps nothing: found  *)
(* is a new list in every call, the default vocabulary is a new list in    *)
(* every call, and the caller's list is read, never written.               *)
(***************************************************************************)
MaxCalls == 3

RepeatTexts == {<<"Python", " ", "AWS">>, <<"python">>, <<"AWS">>}

RepeatLists == {PyNone, PyList(<<PyStr(<<"AWS">>)>>), PyList(<<PyStr(<<"Java">>)>>)}

(* Variant: found is kept from one call to the next. *)
FreshFoundCarried(log) == IF log = <<>> THEN <<>> ELSE AsStrs(log[Len(log)].out)

(* found = [] *)
FreshFound(log) == <<>>

(* The loop, the fallback and the normalisation, found starting as found0. *)
SkillsFromWith(found0, text, candidates) ==
    LET found == found0 \o FoundCandidates(candidates, Lower(text))
    IN IF found = <<>>
       THEN NormalizeItems(found \o AsStrs(NormalizeItems(FindAll(text))))
       ELSE NormalizeItems(found)

ExtractSkillsAfter(log, text, skills_list) ==
    IF text = <<>> THEN Ok(<<>>)
    ELSE Ok(SkillsFromWith(FreshFound(log), text, Candidates(skills_list)))

InitRepeat ==
    /\ pdfplumber = FALSE /\ docx = FALSE /\ nlp = FALSE
    /\ pc = "ready"
    /\ fn = "extract_skills"
    /\ \E x \in RepeatTexts, v \in RepeatLists : args = [text |-> x, skills_list |-> v]
    /\ ret = NoRet
    /\ loads = 0 /\ frame = <<>> /\ stream = <<>>
    /\ disk = {} /\ skills = {}

CallExtractSkillsAgain ==
    /\ pc = "ready"
    /\ fn = "extract_skills"
    /\ ret' = ExtractSkillsAfter(frame, args.text, args.skills_list)
    /\ frame' = Append(frame, [text |-> args.text, skills_list |-> args.skills_list,
                               out |-> ret'.val])
    /\ pc' = "done"
    /\ UNCHANGED <<pdfplumber, docx, nlp, loads, fn, args, stream, disk, skills>>

(* The caller comes back with the arguments of its next call. *)
NextCall ==
    /\ pc = "done"
    /\ Len(frame) < MaxCalls
    /\ \E x \in RepeatTexts, v \in RepeatLists : args' = [text |-> x, skills_list |-> v]
    /\ ret' = NoRet
    /\ pc' = "ready"
    /\ UNCHANGED <<pdfplumber, docx, nlp, loads, fn, frame, stream, disk, skills>>

NextRepeat == CallExtractSkillsAgain \/ NextCall

SpecRepeat == InitRepeat /\ [][NextRepeat]_vars

(* C27: two calls of extract_skills with the same text and the same
   vocabulary return the same list, element for element and in the same
   order, whatever calls were made before and between them; and the call
   that has just returned returned the list of a first call. *)
C27_SameInputSameOutput ==
    /\ \A i, j \in DOMAIN frame :
           (frame[i].text = frame[j].text /\ frame[i].skills_list = frame[j].skills_list)
               => frame[i].out = frame[j].out
    /\ (pc = "done" /\ args.text = <<"Python", " ", "AWS">> /\ args.skills_list = PyNone)
           => ret.val = <<<<"Python">>, <<"AWS">>>>

(* A call with other arguments, then the same call twice. *)
C27_Witness ==
    /\ pc = "done"
    /\ Len(frame) = 3
    /\ frame[1].text = <<"AWS">> /\ frame[1].skills_list = PyList(<<PyStr(<<"AWS">>)>>)
    /\ frame[2].text = <<"Python", " ", "AWS">> /\ frame[2].skills_list = PyNone
    /\ frame[3].text = frame[2].text /\ frame[3].skills_list = frame[2].skills_list
    /\ frame[2].out = <<<<"Python">>, <<"AWS">>>>
    /\ frame[3].out = frame[2].out

(***************************************************************************)
(*                        THE PROCESS AS A WHOLE                           *)
(*                                                                         *)
(* One import of the module, then calls of its functions from several      *)
(* workers.  Python runs the module body once, under the import lock, and  *)
(* no function of the module can be called before the body has run: pc of  *)
(* the importer goes from "import" to "loaded", and calls wait for it.     *)
(* A call is three steps, which interleave freely with the steps of the    *)
(* other workers: the arguments are bound to the locals of the call, the   *)
(* body runs on those locals and on the module globals, the value is       *)
(* returned.  A worker's stream is the one its caller opened for it.       *)
(***************************************************************************)
NumWorkers == 2

Workers == 1..NumWorkers
Importer == 0

NoFrame == [fn |-> "", stage |-> "none", args |-> <<>>, out |-> NoRet]

NoValue == [fn |-> "", stage |-> "none", out |-> NoRet]

(* The calls a worker may make. *)
ProcCallIds == 1..6

ProcCall(i) ==
    CASE i = 1 -> [fn |-> "extract_text_from_resume",
                   args |-> [source |-> StreamSource(PyStr(<<"cv", ".", "pdf">>),
                                                     [fmt |-> "pdf", ok |-> TRUE, parts |-> <<<<"t1">>>>],
                                                     "bytes", FALSE, 1),
                             ext |-> PyNone]]
      [] i = 2 -> [fn |-> "extract_text_from_resume",
                   args |-> [source |-> StreamSource(PyStr(<<"cv", ".", "txt">>),
                                                     [fmt |-> "text", ok |-> TRUE, parts |-> <<<<"t2">>>>],
                                                     "bytes", FALSE, 0),
                             ext |-> PyNone]]
      [] i = 3 -> [fn |-> "extract_skills",
                   args |-> [text |-> <<"AWS", " ", "PYTHON">>, skills_list |-> PyNone]]
      [] i = 4 -> [fn |-> "extract_experience",
                   args |-> [text |-> <<"responsible for", "\n", "2019">>, limit |-> 2]]
      [] i = 5 -> [fn |-> "extract_education",
                   args |-> [text |-> <<"University", ".", "hiking">>]]
      [] OTHER -> [fn |-> "calculate_match_score",
                   args |-> [resume_skills |-> PyList(<<PyStr(<<"I">>)>>),
                             job_requirements |-> PyStr(<<"i", ";", "dotless_i">>)]]

ReadsStream(f, a) == f = "extract_text_from_resume" /\ a.source.kind = "stream"

(* The body of function f on the arguments a, the stream standing at pos. *)
CallResult(f, a, pos) ==
    CASE f = "extract_text_from_resume" ->
             ExtractTextFromResume([a.source EXCEPT !.pos = pos], a.ext)
      [] f = "extract_skills" -> ExtractSkills(a.text, a.skills_list)
      [] f = "extract_experience" -> ExtractExperience(a.text, a.limit)
      [] f = "extract_education" -> ExtractEducation(a.text)
      [] OTHER -> CalculateMatchScore(a.resume_skills, a.job_requirements)

InitProcess ==
    /\ pdfplumber = FALSE /\ docx = FALSE /\ nlp = FALSE
    /\ loads = 0
    /\ pc = [t \in {Importer} \cup Workers |-> IF t = Importer THEN "import" ELSE "ready"]
    /\ \E c \in [Workers -> ProcCallIds] :
           /\ fn = [t \in Workers |-> ProcCall(c[t]).fn]
           /\ args = [t \in Workers |-> ProcCall(c[t]).args]
           /\ stream = [t \in Workers |->
                            IF ReadsStream(ProcCall(c[t]).fn, ProcCall(c[t]).args)
                            THEN ProcCall(c[t]).args.source.pos ELSE 0]
    /\ ret = [t \in Workers |-> NoValue]
    /\ frame = [t \in Workers |-> NoFrame]
    /\ disk = {} /\ skills = {}

(* The module body: the three optional imports and the one spacy.load. *)
ImportModule ==
    /\ pc[Importer] = "import"
    /\ pdfplumber' \in BOOLEAN
    /\ docx' \in BOOLEAN
    /\ \/ nlp' = FALSE /\ loads' = loads
       \/ nlp' \in BOOLEAN /\ loads' = loads + 1
    /\ pc' = [pc EXCEPT ![Importer] = "loaded"]
    /\ UNCHANGED <<fn, args, ret, frame, stream, disk, skills>>

(* Variant: the locals are module-level, one set for all calls. *)
FrameOfShared(t) == 1

(* Each call has locals of its own. *)
FrameOf(t) == t

(* Variant: a call that finds the model missing tries to load it. *)
NlpOnUseReload(t) ==
    IF fn[t] \in {"extract_experience", "extract_education"} /\ ~nlp
    THEN nlp' \in BOOLEAN /\ loads' = loads + 1
    ELSE UNCHANGED <<nlp, loads>>

(* "if nlp:" reads the global and leaves it alone. *)
NlpOnUse(t) == UNCHANGED <<nlp, loads>>

ProcEnter(t) ==
    /\ pc[Importer] = "loaded"
    /\ pc[t] = "ready"
    /\ frame' = [frame EXCEPT ![FrameOf(t)] =
                     [fn |-> fn[t], stage |-> "bound", args |-> args[t], out |-> NoRet]]
    /\ pc' = [pc EXCEPT ![t] = "entered"]
    /\ UNCHANGED <<pdfplumber, docx, nlp, loads, fn, args, ret, stream, disk, skills>>

ProcWork(t) ==
    /\ pc[t] = "entered"
    /\ LET f == frame[FrameOf(t)]
       IN /\ frame' = [frame EXCEPT ![FrameOf(t)] =
                           [f EXCEPT !.stage = "computed",
                                     !.out = CallResult(f.fn, f.args, stream[t])]]
          /\ stream' = IF ReadsStream(f.fn, f.args) THEN [stream EXCEPT ![t] = 1] ELSE stream
    /\ NlpOnUse(t)
    /\ pc' = [pc EXCEPT ![t] = "worked"]
    /\ UNCHANGED <<pdfplumber, docx, fn, args, ret, disk, skills>>

ProcReturn(t) ==
    /\ pc[t] = "worked"
    /\ LET f == frame[FrameOf(t)]
       IN ret' = [ret EXCEPT ![t] = [fn |-> f.fn, stage |-> f.stage, out |-> f.out]]
    /\ pc' = [pc EXCEPT ![t] = "done"]
    /\ UNCHANGED <<pdfplumber, docx, nlp, loads, fn, args, frame, stream, disk, skills>>

NextProcess ==
    \/ ImportModule
    \/ \E t \in Workers : ProcEnter(t)
    \/ \E t \in Workers : ProcWork(t)
    \/ \E t \in Workers : ProcReturn(t)

SpecProcess == InitProcess /\ [][NextProcess]_vars

(***************************************************************************)
(* Vocabulary of the process claims.                                       *)
(***************************************************************************)
UsesSegmenter(f) == f \in {"extract_experience", "extract_education"}

InCall(t) == pc[t] \in {"entered", "worked"}

(* C19 as stated: spacy.load is called at most once in the process, and
   when it is called it is called lazily, from inside a call that needs the
   segmenter; once it has been called its outcome stays: nlp does not
   change again, a failed load is not retried by any later call. *)
C19_LoadedOnceLazilyCached ==
    [][/\ loads' <= 1
       /\ loads' # loads => \E t \in Workers : InCall(t) /\ UsesSegmenter(fn[t])
       /\ loads >= 1 => (nlp' = nlp /\ loads' = loads)]_vars

(* C19 amended: spacy.load is called at most once in the process, eagerly,
   by the import of the module and before any call; from then on nlp and
   the number of loads stay as the import left them: a failed load leaves
   the capability absent for good and no call of extract_experience or
   extract_education attempts a load. *)
C19_LoadedOnceAtImportCached ==
    [][/\ loads' <= 1
       /\ loads' # loads => (pc[Importer] = "import" /\ \A t \in Workers : pc[t] = "ready")
       /\ pc[Importer] = "loaded" => (nlp' = nlp /\ loads' = loads)]_vars

(* The load failed at import; a call of extract_experience has since run on
   the line path, and the load count is still one. *)
C19_Witness ==
    /\ pc[Importer] = "loaded"
    /\ loads = 1 /\ ~nlp
    /\ pc[1] = "done" /\ fn[1] = "extract_experience"
    /\ ret[1].stage = "computed"
    /\ ret[1].out = Ok(<<<<"2019">>>>)

(* What worker t's call returns when it runs alone in the same process. *)
AloneResult(t) ==
    CallResult(fn[t], args[t], IF ReadsStream(fn[t], args[t]) THEN args[t].source.pos ELSE 0)

SameFrame(a, b) == a.fn = b.fn /\ a.stage = b.stage /\ a.args = b.args /\ a.out = b.out

SameValue(a, b) == a.fn = b.fn /\ a.stage = b.stage /\ a.out = b.out

(* C20: in every interleaving of the workers' calls, a call that returns
   returns the value it returns when run alone; a step of one worker leaves
   the locals, the stream and the returned value of every other worker as
   they were; and no call writes the module globals that the calls read. *)
C20_CallsDoNotInterfere ==
    [][\A t \in Workers :
           /\ pc'[t] = "done" =>
                  /\ ret'[t].fn = fn[t]
                  /\ ret'[t].stage = "computed"
                  /\ ret'[t].out = AloneResult(t)
           /\ pc'[t] = pc[t] =>
                  /\ SameFrame(frame'[t], frame[t])
                  /\ stream'[t] = stream[t]
                  /\ SameValue(ret'[t], ret[t])
           /\ pc[Importer] = "loaded" =>
                  (nlp' = nlp /\ pdfplumber' = pdfplumber /\ docx' = docx)]_vars

(* Worker 1 is in the middle of reading its PDF stream while worker 2 has
   returned from scoring. *)
C20_Witness ==
    /\ pc[1] = "worked" /\ fn[1] = "extract_text_from_resume"
    /\ args[1].source.doc.fmt = "pdf" /\ pdfplumber
    /\ frame[1].out = TextOk(<<"t1", "\n">>, <<>>)
    /\ pc[2] = "done" /\ fn[2] = "calculate_match_score"
    /\ ret[2].stage = "computed"
    /\ ret[2].out = Ok(50)

(***************************************************************************)
(*                  THE UPLOAD VIEWS OF core/views.py                      *)
(*                                                                         *)
(* resume_create and resume_update, one request per worker, every request  *)
(* inside transaction.atomic().  A request copies the uploaded file to a   *)
(* temporary file, runs the extractors on it, removes the file, saves the  *)
(* résumé and looks up or creates a Skill for every extracted name; in     *)
(* resume_update the lookups stand inside the try block, in resume_create  *)
(* after resume.save().  frame holds the locals of each request, together  *)
(* with the count of os.remove calls it has made.                          *)
(*                                                                         *)
(* A row of the Skill table is [name, slug, by]: by is the request whose   *)
(* open transaction inserted it, 0 once committed.  A request reads the    *)
(* committed rows and its own.  name and slug are unique: an insert that   *)
(* collides with a row the request can see raises IntegrityError, one that *)
(* collides with a row of another open transaction waits for its end, and  *)
(* when two requests wait for each other the database aborts one.          *)
(***************************************************************************)
NumRequests == 2

Requests == 1..NumRequests

UploadTexts == {<<"Flask", " ", "Degree">>, <<"Degree", " ", "FLASK">>, <<"Python">>}

Upload(text) ==
    [name |-> PyStr(<<"cv", ".", "txt">>),
     doc |-> [fmt |-> "text", ok |-> TRUE, parts |-> <<text>>]]

NoUpload == [name |-> PyNone, doc |-> EmptyDoc]

(* request.FILES.get('file'), and whether the extractors raise on it *)
RequestInputs ==
    {[file |-> NoUpload, fault |-> FALSE]}
    \cup {[file |-> Upload(x), fault |-> FALSE] : x \in UploadTexts}
    \cup {[file |-> Upload(<<"Python">>), fault |-> TRUE]}

NoLocals ==
    [names |-> <<>>, i |-> 1, objs |-> {}, raised |-> "", written |-> FALSE,
     removals |-> 0, remove_failed |-> FALSE, saved |-> FALSE]

(* Skill.save: slug = slugify(name) *)
SlugOf(name) == Lower(name)

SkillRow(name, t) == [name |-> name, slug |-> SlugOf(name), by |-> t]

Visible(t) == {r \in skills : r.by \in {0, t}}

(* Skill.objects.get(name__iexact=name_clean) *)
Iexact(t, name) == {r \in Visible(t) : Lower(r.name) = Lower(name)}

(* The rows that bar the insert of name: unique=True on name and on slug. *)
Collisions(name) == {r \in skills : r.name = name \/ r.slug = SlugOf(name)}

Blocked(t, name) == \E r \in Collisions(name) : r.by \notin {0, t}

InitRequests ==
    /\ pdfplumber = FALSE /\ docx = FALSE /\ nlp = FALSE /\ loads = 0
    /\ pc = [t \in Requests |-> "ready"]
    /\ fn \in [Requests -> {"resume_create", "resume_update"}]
    /\ args \in [Requests -> RequestInputs]
    /\ ret = [t \in Requests |-> "none"]
    /\ frame = [t \in Requests |-> NoLocals]
    /\ stream = <<>>
    /\ disk = {} /\ skills = {}

(* An exception leaves the view: the transaction is rolled back and the
   request ends in an error response. *)
Abort(t, exc) ==
    /\ frame' = [frame EXCEPT ![t].raised = exc]
    /\ skills' = {r \in skills : r.by # t}
    /\ pc' = [pc EXCEPT ![t] = "failed"]
    /\ ret' = [ret EXCEPT ![t] = "error"]

(* with tempfile.NamedTemporaryFile(delete=False, ...) as tmp: the file is
   created and the chunks are written, or a write fails and the file stays. *)
WriteTemp(t) ==
    /\ pc[t] = "ready"
    /\ IF args[t].file.name = PyNone
       THEN /\ pc' = [pc EXCEPT ![t] = "save"]
            /\ UNCHANGED <<frame, ret, disk, skills>>
       ELSE \/ /\ disk' = disk \cup {t}
               /\ frame' = [frame EXCEPT ![t].written = TRUE]
               /\ pc' = [pc EXCEPT ![t] = "written"]
               /\ UNCHANGED <<ret, skills>>
            \/ /\ disk' = disk \cup {t}
               /\ Abort(t, "OSError")
    /\ UNCHANGED <<pdfplumber, docx, nlp, loads, fn, args, stream>>

(* ext = uploaded_file.name.split('.')[-1].lower();
   parsed_text = extract_text_from_resume(tmp_path, ext) or '';
   extracted_skill_names = extract_skills(parsed_text) or [] *)
ExtractedNames(t) ==
    LET ext == LastSuffix(args[t].file.name.s)
        tmp_path == PyStr(<<"tmp", ".">> \o ext)
        parsed_text == ExtractTextFromResume(PathSource(tmp_path, t \in disk, args[t].file.doc),
                                             PyStr(ext)).val
    IN ExtractSkills(parsed_text, PyNone).val

(* The first statements of the try block. *)
Extract(t) ==
    /\ pc[t] = "written"
    /\ IF args[t].fault
       THEN /\ frame' = [frame EXCEPT ![t].raised = "ExtractionError"]
            /\ pc' = [pc EXCEPT ![t] = "finally"]
       ELSE /\ frame' = [frame EXCEPT ![t].names = ExtractedNames(t)]
            /\ pc' = [pc EXCEPT ![t] = IF fn[t] = "resume_update" THEN "lookup" ELSE "finally"]
    /\ UNCHANGED <<pdfplumber, docx, nlp, loads, fn, args, ret, stream, disk, skills>>

(* Variant: no try/except around os.remove. *)
RemovePropagates(failed) == failed

(* try: os.remove(tmp_path) / except Exception: pass *)
RemoveRaises(failed) == FALSE

(* The finally block: one call of os.remove, which removes the file or
   fails; then the exception of the try block, if any, goes on. *)
RemoveTemp(t) ==
    /\ pc[t] = "finally"
    /\ \E removed \in BOOLEAN :
           LET exc == IF frame[t].raised # "" THEN frame[t].raised
                      ELSE IF RemoveRaises(~removed) THEN "RemoveError" ELSE ""
               f == [frame[t] EXCEPT !.removals = @ + 1, !.remove_failed = ~removed]
           IN /\ disk' = IF removed THEN disk \ {t} ELSE disk
              /\ IF exc # ""
                 THEN /\ frame' = [frame EXCEPT ![t] = [f EXCEPT !.raised = exc]]
                      /\ skills' = {r \in skills : r.by # t}
                      /\ pc' = [pc EXCEPT ![t] = "failed"]
                      /\ ret' = [ret EXCEPT ![t] = "error"]
                 ELSE /\ frame' = [frame EXCEPT ![t] = f]
                      /\ pc' = [pc EXCEPT ![t] = "save"]
                      /\ UNCHANGED <<ret, skills>>
    /\ UNCHANGED <<pdfplumber, docx, nlp, loads, fn, args, stream>>

(* resume.save() *)
SaveResume(t) ==
    /\ pc[t] = "save"
    /\ frame' = [frame EXCEPT ![t].saved = TRUE]
    /\ pc' = [pc EXCEPT ![t] = IF fn[t] = "resume_create" THEN "lookup" ELSE "attach"]
    /\ UNCHANGED <<pdfplumber, docx, nlp, loads, fn, args, ret, stream, disk, skills>>

(* An exception in the skill loop: resume_update is inside its try block
   and goes to the finally block, resume_create is past it. *)
RaiseInLoop(t, exc) ==
    IF fn[t] = "resume_update"
    THEN /\ frame' = [frame EXCEPT ![t].raised = exc]
         /\ pc' = [pc EXCEPT ![t] = "finally"]
         /\ UNCHANGED <<ret, skills>>
    ELSE Abort(t, exc)

(* for name in extracted_skill_names: Skill.objects.get(name__iexact=...) *)
GetSkill(t) ==
    /\ pc[t] = "lookup"
    /\ LET f == frame[t]
       IN IF f.i > Len(f.names)
          THEN /\ pc' = [pc EXCEPT ![t] = IF fn[t] = "resume_create" THEN "attach" ELSE "finally"]
               /\ UNCHANGED <<frame, ret, skills>>
          ELSE LET found == Iexact(t, f.names[f.i])
               IN IF Cardinality(found) = 1
                  THEN /\ frame' = [frame EXCEPT ![t].objs = @ \cup {r.name : r \in found},
                                                 ![t].i = @ + 1]
                       /\ UNCHANGED <<pc, ret, skills>>
                  ELSE IF found = {}
                  THEN /\ pc' = [pc EXCEPT ![t] = "create"]
                       /\ UNCHANGED <<frame, ret, skills>>
                  ELSE RaiseInLoop(t, "MultipleObjectsReturned")
    /\ UNCHANGED <<pdfplumber, docx, nlp, loads, fn, args, stream, disk>>

(* except Skill.DoesNotExist: Skill.objects.create(name=name_clean) *)
CreateSkill(t) ==
    /\ pc[t] = "create"
    /\ LET name == frame[t].names[frame[t].i]
       IN /\ ~Blocked(t, name)
          /\ IF Collisions(name) # {}
             THEN RaiseInLoop(t, "IntegrityError")
             ELSE /\ skills' = skills \cup {SkillRow(name, t)}
                  /\ frame' = [frame EXCEPT ![t].objs = @ \cup {name}, ![t].i = @ + 1]
                  /\ pc' = [pc EXCEPT ![t] = "lookup"]
                  /\ UNCHANGED ret
    /\ UNCHANGED <<pdfplumber, docx, nlp, loads, fn, args, stream, disk>>

(* Two inserts wait for each other's transaction: the database ends one. *)
DeadlockAbort(t) ==
    /\ pc[t] = "create"
    /\ \E u \in Requests \ {t} :
           /\ pc[u] = "create"
           /\ \E r \in Collisions(frame[t].names[frame[t].i]) : r.by = u
           /\ \E r \in Collisions(frame[u].names[frame[u].i]) : r.by = t
    /\ RaiseInLoop(t, "OperationalError")
    /\ UNCHANGED <<pdfplumber, docx, nlp, loads, fn, args, stream, disk>>

(* form.save_m2m(); resume.skills.add of the skill_objs; the atomic block ends
   and the transaction commits. *)
Commit(t) ==
    /\ pc[t] = "attach"
    /\ skills' = {IF r.by = t THEN [r EXCEPT !.by = 0] ELSE r : r \in skills}
    /\ pc' = [pc EXCEPT ![t] = "done"]
    /\ ret' = [ret EXCEPT ![t] = "redirect"]
    /\ UNCHANGED <<pdfplumber, docx, nlp, loads, fn, args, frame, stream, disk>>

NextRequests ==
    \/ \E t \in Requests : WriteTemp(t)
    \/ \E t \in Requests : Extract(t)
    \/ \E t \in Requests : RemoveTemp(t)
    \/ \E t \in Requests : SaveResume(t)
    \/ \E t \in Requests : GetSkill(t)
    \/ \E t \in Requests : CreateSkill(t)
    \/ \E t \in Requests : DeadlockAbort(t)
    \/ \E t \in Requests : Commit(t)

SpecRequests == InitRequests /\ [][NextRequests]_vars

(***************************************************************************)
(* Vocabulary of the claims on the views.                                  *)
(***************************************************************************)
(* The request has left the try/finally statement around the extractors. *)
PastFinally(t) ==
    \/ pc[t] \in {"save", "attach", "done", "failed"}
    \/ fn[t] = "resume_create" /\ pc[t] \in {"lookup", "create"}

LookupErrors == {"IntegrityError", "MultipleObjectsReturned", "OperationalError"}

Committed == {r \in skills : r.by = 0}

(* C29: once the temporary copy has been written, os.remove is called on
   it exactly once, before the résumé is saved, whether the try block
   returns or raises: never twice, once by the time the request is past
   the finally block, and so once whenever the résumé is saved; when the
   try block raised the résumé is not saved; and a removal that fails is
   never what ends the request. *)
C29_TempRemovalOnceBeforeSave ==
    \A t \in Requests :
        /\ frame[t].removals <= 1
        /\ (frame[t].written /\ PastFinally(t)) => frame[t].removals = 1
        /\ (frame[t].written /\ frame[t].saved) => frame[t].removals = 1
        /\ (frame[t].written /\ ~PastFinally(t)) => (frame[t].removals = 0 /\ ~frame[t].saved)
        /\ (args[t].fault /\ pc[t] = "failed" /\ frame[t].written) =>
               (frame[t].removals = 1 /\ ~frame[t].saved)
        /\ frame[t].raised # "RemoveError"
        /\ (frame[t].remove_failed /\ frame[t].raised = "") => pc[t] # "failed"

(* Request 1 is an update whose extraction raised and request 2 a creation
   that went through; os.remove failed in both, each called it once, and
   request 2 saved its résumé and was answered with the redirect. *)
C29_Witness ==
    /\ fn[1] = "resume_update" /\ args[1].fault
    /\ pc[1] = "failed" /\ frame[1].raised = "ExtractionError"
    /\ frame[1].removals = 1 /\ frame[1].remove_failed /\ ~frame[1].saved
    /\ fn[2] = "resume_create" /\ ~args[2].fault
    /\ pc[2] = "done" /\ ret[2] = "redirect"
    /\ frame[2].written /\ frame[2].removals = 1 /\ frame[2].remove_failed /\ frame[2].saved
    /\ disk = {1, 2}

(* C30: in every interleaving of the requests the Skill table holds no two
   rows whose names are equal ignoring case, no request is ended by its
   lookup-then-create (no IntegrityError, MultipleObjectsReturned or
   database abort), and a request that is done finds exactly one Skill for
   each of its names. *)
C30_LookupThenCreateRaceFree ==
    /\ \A a, b \in Committed : Lower(a.name) = Lower(b.name) => a = b
    /\ \A t \in Requests :
           /\ frame[t].raised \notin LookupErrors
           /\ pc[t] = "done" =>
                  \A k \in DOMAIN frame[t].names :
                      Cardinality({r \in Committed :
                                       Lower(r.name) = Lower(frame[t].names[k])}) = 1

====
